---- MODULE Spec2Model ----
(***************************************************************************)
(* Model of Telegram/SourceFiles/window/window_theme.cpp: the color-scheme *)
(* parser, the theme container loader, the ChatBackground state machine    *)
(* and the Load / Apply / ApplyDefault / KeepApplied / Revert / Unload     *)
(* entry points.                                                           *)
(*                                                                         *)
(* Strings of the source (QLatin1String names and values) are sequences of *)
(* one-character strings, so that sizes and single characters can be read  *)
(* the way the code reads them.                                            *)
(***************************************************************************)
EXTENDS Integers, Sequences, FiniteSets, TLC

\* ------------------------------------------------------------------------
\* Program constants
\* ------------------------------------------------------------------------
kThemeFileSizeLimit == 5 * 1024 * 1024
kThemeBackgroundSizeLimit == 4 * 1024 * 1024
kThemeSchemeSizeLimit == 1024 * 1024
kMinimumTiledSize == 512

\* Background ids (window_theme.h); only their identity matters here.
kUninitializedBackground == "Uninitialized"
kTestingThemeBackground == "TestingTheme"
kTestingDefaultBackground == "TestingDefault"
kThemeBackground == "ThemeProvided"
kDefaultBackground == "Default"
kInitialBackground == "Initial"
kCustomBackground == "Custom"

\* ------------------------------------------------------------------------
\* Bounds of the model
\* ------------------------------------------------------------------------
\* Longest color scheme, in entries, that the parser is run on.
MaxEntries == 3
\* Number of operations in one run of the program.
MaxOps == 4

\* ------------------------------------------------------------------------
\* readHexUchar
\* ------------------------------------------------------------------------
DecDigits == <<"0", "1", "2", "3", "4", "5", "6", "7", "8", "9">>
LowerHex == <<"a", "b", "c", "d", "e", "f">>
UpperHex == <<"A", "B", "C", "D", "E", "F">>

InSeq(seq, c) == \E i \in 1..Len(seq) : seq[i] = c
IndexOf(seq, c) == CHOOSE i \in 1..Len(seq) : seq[i] = c

\* uchar readHexUchar(char code, bool &error): the value and whether error
\* was raised by this call.
readHexUchar(code) ==
    IF InSeq(DecDigits, code) THEN [v |-> (IndexOf(DecDigits, code) - 1) % 256, error |-> FALSE]
    ELSE IF InSeq(LowerHex, code) THEN [v |-> (IndexOf(LowerHex, code) - 1 + 10) % 256, error |-> FALSE]
    ELSE IF InSeq(UpperHex, code) THEN [v |-> (IndexOf(UpperHex, code) - 1 + 10) % 256, error |-> FALSE]
    ELSE [v |-> 255, error |-> TRUE]

\* uchar readHexUchar(char char1, char char2, bool &error)
CombineHex(h, l) == [v |-> ((h.v % 16) * 16) + (l.v % 16), error |-> h.error \/ l.error]
readHexUchar2(char1, char2) == CombineHex(readHexUchar(char1), readHexUchar(char2))

\* ------------------------------------------------------------------------
\* The palette registry (style::palette, generated code outside this file)
\* ------------------------------------------------------------------------
\* Names the palette knows.  msgServiceBg stands for the six service colors
\* that initColorsFromBackground recolors together.
windowBg == <<"c">>
msgServiceBg == <<"m">>
PaletteNames == {windowBg, msgServiceBg}
ServiceNames == {msgServiceBg}

\* A color: its channels, and the hue/saturation source pushed into it by
\* initColor ("none" when the color was set directly).
MakeColor(r, g, b, a) == [r |-> r, g |-> g, b |-> b, a |-> a, tint |-> "none"]
Unset == [r |-> 0, g |-> 0, b |-> 0, a |-> 0, tint |-> "unset"]

\* Built-in defaults of the registry.
DefaultPalette == [n \in PaletteNames |-> MakeColor(0, 0, 0, 255)]
\* A freshly constructed style::palette (Instance::palette): nothing loaded.
EmptyPalette == [n \in PaletteNames |-> Unset]

\* bool palette::setColor(QLatin1String name, uchar r, uchar g, uchar b, uchar a)
paletteSetColorRgba(pal, name, r, g, b, a) ==
    IF name \in PaletteNames
    THEN [found |-> TRUE, pal |-> [pal EXCEPT ![name] = MakeColor(r, g, b, a)]]
    ELSE [found |-> FALSE, pal |-> pal]

\* bool palette::setColor(QLatin1String name, QLatin1String from)
paletteSetColorFrom(pal, name, from) ==
    IF name \in PaletteNames /\ from \in PaletteNames /\ pal[from] # Unset
    THEN [found |-> TRUE, pal |-> [pal EXCEPT ![name] = pal[from]]]
    ELSE [found |-> FALSE, pal |-> pal]

\* QByteArray palette::save() and bool main_palette::load(const QByteArray &).
\* A serialized palette: empty, or a blob that either loads back or is corrupt.
EmptyBytes == [empty |-> TRUE, ok |-> FALSE, pal |-> EmptyPalette]
\* save() finalizes first: colors never loaded are written as the defaults.
paletteFinalize(pal) ==
    [n \in PaletteNames |-> IF pal[n] # Unset THEN pal[n] ELSE DefaultPalette[n]]
paletteSave(pal) == [empty |-> FALSE, ok |-> TRUE, pal |-> paletteFinalize(pal)]
CorruptColors == [empty |-> FALSE, ok |-> FALSE, pal |-> EmptyPalette]
paletteLoadOk(bytes) == ~bytes.empty /\ bytes.ok
paletteLoad(pal, bytes) == IF paletteLoadOk(bytes) THEN bytes.pal ELSE pal

\* void main_palette::apply(const palette &other): loaded colors are copied,
\* the others fall back to the built-in defaults.
paletteApply(other) == paletteFinalize(other)

\* int32 style::palette::Checksum(): fixed by the palette's definition.
\* A record written by an older build carries another one; Cached() has none.
PaletteChecksum == "palette-v2"
OldPaletteChecksum == "palette-v1"
ZeroChecksum == "0"

\* ------------------------------------------------------------------------
\* Color scheme text
\* ------------------------------------------------------------------------
\* The content after base::parse::stripComments, as the tokens that
\* skipWhitespaces / readName step over: ':' , ';' , and maximal runs of name
\* characters, optionally preceded by '#'.  pad counts the bytes of comments
\* and whitespace, which only matter for the size limit.
Colon == [k |-> "colon", hash |-> FALSE, s |-> <<>>]
Semi == [k |-> "semi", hash |-> FALSE, s |-> <<>>]
Word(s) == [k |-> "word", hash |-> FALSE, s |-> s]
HashWord(s) == [k |-> "word", hash |-> TRUE, s |-> s]

TokSize(t) == IF t.k = "word" THEN Len(t.s) + (IF t.hash THEN 1 ELSE 0) ELSE 1

RECURSIVE ToksSize(_)
ToksSize(toks) == IF toks = <<>> THEN 0 ELSE TokSize(Head(toks)) + ToksSize(Tail(toks))

\* content.size() of a color scheme
SchemeSize(scheme) == scheme.pad + ToksSize(scheme.toks)

\* base::parse::readName at a name position: '#' is not a name character.
readNameAt(toks, from) ==
    IF from <= Len(toks) /\ toks[from].k = "word" /\ ~toks[from].hash
    THEN toks[from].s
    ELSE <<>>

\* bool readNameAndValue(from, end, outName, outValue)
readNameAndValue(toks, from) ==
    LET end == Len(toks) + 1
        fail == [ok |-> FALSE, name |-> <<>>, value |-> <<>>, from |-> from]
        name == readNameAt(toks, from)
    IN  IF from = end THEN [ok |-> TRUE, name |-> <<>>, value |-> <<>>, from |-> from]
        ELSE IF Len(name) = 0 THEN fail
        ELSE IF from + 1 = end THEN fail
        ELSE IF toks[from + 1].k # "colon" THEN fail
        ELSE IF from + 2 = end THEN fail
        ELSE LET vt == toks[from + 2]
                 body == IF vt.k = "word" THEN vt.s ELSE <<>>
                 value == IF vt.k = "word" /\ vt.hash THEN <<"#">> \o body ELSE body
             IN  IF Len(body) = 0 THEN fail
                 ELSE IF from + 3 = end THEN fail
                 ELSE IF toks[from + 3].k # "semi" THEN fail
                 ELSE [ok |-> TRUE, name |-> name, value |-> value, from |-> from + 4]

\* Where a parse writes: out = nullptr is the live registry and the live
\* ChatBackground, otherwise the caller's private Instance.
\*   live : [palette, themeImage, themeTile]
\*   out  : [given, palette, background, tiled]
NoOut == [given |-> FALSE, palette |-> EmptyPalette, background |-> "null", tiled |-> FALSE]
NewInstance == [given |-> TRUE, palette |-> EmptyPalette, background |-> "null", tiled |-> FALSE]

\* The palette a parse with this sink writes into.
SinkPalette(live, out) == IF out.given THEN out.palette ELSE live.palette
\* A sink that also writes the live registry while an Instance is given.
SinkWithPaletteLive(live, out, pal) ==
    [live |-> [live EXCEPT !.palette = pal],
     out |-> IF out.given THEN [out EXCEPT !.palette = pal] ELSE out]

SinkWithPalette(live, out, pal) ==
    IF out.given
    THEN [live |-> live, out |-> [out EXCEPT !.palette = pal]]
    ELSE [live |-> [live EXCEPT !.palette = pal], out |-> out]

\* The return of setColorSchemeValue once the palette has answered.
SetResultOf(set, live, out) ==
    [result |-> IF set.found THEN "Ok" ELSE "NotFound",
     sink |-> SinkWithPalette(live, out, set.pal)]

\* setColorSchemeValue for a '#' value of 7 or 9 characters, its channels read.
setHexColor(name, live, out, r, g, b, a) ==
    IF r.error \/ g.error \/ b.error \/ a.error
    THEN [result |-> "Bad", sink |-> [live |-> live, out |-> out]]
    ELSE SetResultOf(paletteSetColorRgba(SinkPalette(live, out), name, r.v, g.v, b.v, a.v),
                     live, out)

\* A setColorSchemeValue that rejects every '#' value of another length.
setColorSchemeValueStrict(name, value, live, out) ==
    IF value[1] = "#" /\ (Len(value) = 7 \/ Len(value) = 9)
    THEN setHexColor(name, live, out,
             readHexUchar2(value[2], value[3]),
             readHexUchar2(value[4], value[5]),
             readHexUchar2(value[6], value[7]),
             IF Len(value) = 9 THEN readHexUchar2(value[8], value[9])
                               ELSE [v |-> 255, error |-> FALSE])
    ELSE IF value[1] = "#"
    THEN [result |-> "Bad", sink |-> [live |-> live, out |-> out]]
    ELSE SetResultOf(paletteSetColorFrom(SinkPalette(live, out), name, value), live, out)

\* SetResult setColorSchemeValue(name, value, out)
setColorSchemeValue(name, value, live, out) ==
    IF value[1] = "#" /\ (Len(value) = 7 \/ Len(value) = 9)
    THEN setHexColor(name, live, out,
             readHexUchar2(value[2], value[3]),
             readHexUchar2(value[4], value[5]),
             readHexUchar2(value[6], value[7]),
             IF Len(value) = 9 THEN readHexUchar2(value[8], value[9])
                               ELSE [v |-> 255, error |-> FALSE])
    ELSE SetResultOf(paletteSetColorFrom(SinkPalette(live, out), name, value), live, out)

\* QMap<QLatin1String, QLatin1String> unsupported
NoUnsupported == << >>
unsupportedValue(unsupported, key, default) ==
    IF key \in DOMAIN unsupported THEN unsupported[key] ELSE default
unsupportedInsert(unsupported, key, value) ==
    [k \in (DOMAIN unsupported) \cup {key} |-> IF k = key THEN value ELSE unsupported[k]]

SchemeResult(ok, live, out, unsupported) ==
    [ok |-> ok, live |-> live, out |-> out, unsupported |-> unsupported]

\* The while loop of loadColorScheme, from position `from`.
RECURSIVE loadColorSchemeLoop(_, _, _, _, _)

\* A loop in which a name the palette does not know ends the parse.
loadColorSchemeSetFatal(toks, nv, value, set, unsupported) ==
    IF set.result # "Ok"
    THEN SchemeResult(FALSE, set.sink.live, set.sink.out, unsupported)
    ELSE loadColorSchemeLoop(toks, nv.from, unsupported, set.sink.live, set.sink.out)

\* ... after setColorSchemeValue returned `set` for the entry nv
loadColorSchemeSet(toks, nv, value, set, unsupported) ==
    IF set.result = "Bad"
    THEN SchemeResult(FALSE, set.sink.live, set.sink.out, unsupported)
    ELSE loadColorSchemeLoop(toks, nv.from,
             IF set.result = "NotFound"
             THEN unsupportedInsert(unsupported, nv.name, value)
             ELSE unsupported,
             set.sink.live, set.sink.out)

\* A loop that remembers the value as written, not as substituted.
loadColorSchemeValueRaw(toks, nv, value, unsupported, live, out) ==
    loadColorSchemeSet(toks, nv, nv.value, setColorSchemeValue(nv.name, value, live, out),
                       unsupported)

\* ... after the value was looked up in the unsupported list
loadColorSchemeValue(toks, nv, value, unsupported, live, out) ==
    loadColorSchemeSet(toks, nv, value, setColorSchemeValue(nv.name, value, live, out),
                       unsupported)

\* ... after readNameAndValue returned nv
loadColorSchemeEntry(toks, nv, unsupported, live, out) ==
    IF ~nv.ok THEN SchemeResult(FALSE, live, out, unsupported)
    ELSE IF Len(nv.name) = 0 THEN SchemeResult(TRUE, live, out, unsupported)
    ELSE loadColorSchemeValue(toks, nv, unsupportedValue(unsupported, nv.value, nv.value),
                              unsupported, live, out)

loadColorSchemeLoop(toks, from, unsupported, live, out) ==
    IF from = Len(toks) + 1
    THEN SchemeResult(TRUE, live, out, unsupported)
    ELSE loadColorSchemeEntry(toks, readNameAndValue(toks, from), unsupported, live, out)

\* bool loadColorScheme(const QByteArray &content, Instance *out)
loadColorScheme(scheme, live, out) ==
    IF SchemeSize(scheme) > kThemeSchemeSizeLimit
    THEN SchemeResult(FALSE, live, out, NoUnsupported)
    ELSE loadColorSchemeLoop(scheme.toks, 1, NoUnsupported, live, out)

\* ------------------------------------------------------------------------
\* Images and encoded image bytes (codecs are outside this file)
\* ------------------------------------------------------------------------
\* An image is named by its pixel content; "null" is QImage().
NullImage == "null"
DefaultArt == "bg.jpg"
InitialArt == "bg_initial.png"

\* Encoded bytes: empty, an image in some format, or bytes no codec reads.
EmptyData == [fmt |-> "empty", img |-> NullImage]
Garbage == [fmt |-> "garbage", img |-> NullImage]
Encoded(fmt, img) == [fmt |-> fmt, img |-> img]
dataIsEmpty(data) == data.fmt = "empty"

\* QImage App::readImage(QByteArray) / QImageReader::read
readImage(data) == IF data.fmt \in {"jpg", "png", "bmp"} THEN data.img ELSE NullImage

\* bool QImage::save(&buffer, "BMP"): one image of the model cannot be written.
Unwritable == "imgNoBmp"
saveBmp(img) == IF img = Unwritable THEN [ok |-> FALSE, data |-> EmptyData]
                ELSE [ok |-> TRUE, data |-> Encoded("bmp", img)]

\* QImage prepareBackgroundImage(QImage &&image): only the pixel format and
\* the device pixel ratio change, the pixel content is kept.
prepareBackgroundImage(image) == image

\* ------------------------------------------------------------------------
\* Theme content and the Cached record
\* ------------------------------------------------------------------------
\* A theme content (QByteArray) is either a bare color scheme or a zip
\* container with an entry colors.tdesktop-theme (colors: how reading it
\* ends) and the four background entries in probing order: background.jpg,
\* background.png, tiled.jpg, tiled.png.  An entry is absent, unreadable, or
\* found with its bytes and their uncompressed size.
Absent == [st |-> "absent", data |-> EmptyData, size |-> 0]
ReadError == [st |-> "error", data |-> EmptyData, size |-> 0]
Found(data) == [st |-> "found", data |-> data, size |-> IF dataIsEmpty(data) THEN 0 ELSE 4096]
Oversize(data) == [st |-> "found", data |-> data, size |-> kThemeBackgroundSizeLimit + 1]
NoFiles == [i \in 1..4 |-> Absent]

PlainTheme(scheme) == [zip |-> FALSE, scheme |-> scheme, colors |-> "none", files |-> NoFiles]
ZipTheme(scheme, colors, files) ==
    [zip |-> TRUE, scheme |-> scheme, colors |-> colors, files |-> files]

\* Bytes of the zip structure around the entries.
ZipOverhead == 22 + 46 + 30

\* content.size()
ContentSize(content) ==
    IF content.zip
    THEN ZipOverhead + SchemeSize(content.scheme)
    ELSE SchemeSize(content.scheme)

\* int32 hashCrc32(const void *data, int len): a checksum computed over the
\* characters of the content (16 bits wide here, TLC's integers being 32).
Alphabet == DecDigits \o LowerHex \o UpperHex \o <<"g", "m", "x", "#", ":", ";">>
CharCode(c) == IF InSeq(Alphabet, c) THEN IndexOf(Alphabet, c) ELSE 0
HashStep(h, code) == (h * 31 + code) % 65521

RECURSIVE HashChars(_, _)
HashChars(h, chars) ==
    IF chars = <<>> THEN h ELSE HashChars(HashStep(h, CharCode(Head(chars))), Tail(chars))

TokChars(t) ==
    IF t.k = "colon" THEN <<":">>
    ELSE IF t.k = "semi" THEN <<";">>
    ELSE IF t.hash THEN <<"#">> \o t.s ELSE t.s

RECURSIVE HashToks(_, _)
HashToks(h, toks) ==
    IF toks = <<>> THEN h ELSE HashToks(HashChars(HashStep(h, 1), TokChars(Head(toks))), Tail(toks))

KnownFormats == <<"empty", "garbage", "jpg", "png", "bmp">>
KnownImages == <<NullImage, DefaultArt, InitialArt, "imgA", "imgB", "imgC", Unwritable>>
EntryCode(e) ==
    IF e.st = "absent" THEN 2
    ELSE IF e.st = "error" THEN 3
    ELSE IF e.size > kThemeBackgroundSizeLimit THEN 4
    ELSE 5 + IndexOf(KnownFormats, e.data.fmt) + 7 * IndexOf(KnownImages, e.data.img)

hashCrc32(content) ==
    LET h0 == HashStep(IF content.zip THEN 7 ELSE 11, content.scheme.pad % 256)
        h1 == HashToks(h0, content.scheme.toks)
        h2 == HashStep(h1, Len(content.colors))
    IN  HashStep(HashStep(HashStep(HashStep(h2, EntryCode(content.files[1])),
            EntryCode(content.files[2])), EntryCode(content.files[3])),
            EntryCode(content.files[4]))

\* struct Cached, and a default-constructed one
NoCache ==
    [paletteChecksum |-> ZeroChecksum, contentChecksum |-> 0, colors |-> EmptyBytes,
     background |-> EmptyData, tiled |-> FALSE]

\* ------------------------------------------------------------------------
\* Theme container loader
\* ------------------------------------------------------------------------
\* void applyBackground(QImage &&background, bool tiled, Instance *out);
\* with out = nullptr this is ChatBackground::setThemeData.
applyBackground(background, tiled, live, out) ==
    IF out.given
    THEN [live |-> live, out |-> [out EXCEPT !.background = background, !.tiled = tiled]]
    ELSE [live |-> [live EXCEPT !.themeImage = prepareBackgroundImage(background),
                                !.themeTile = tiled],
          out |-> out]

\* LoadResult loadBackgroundFromFile(file, filename, outBackground):
\* readFileContent refuses an entry over kThemeBackgroundSizeLimit.
loadBackgroundFromFile(files, i) ==
    IF files[i].st = "absent" THEN [result |-> "NotFound", data |-> EmptyData]
    ELSE IF files[i].st = "error" \/ files[i].size > kThemeBackgroundSizeLimit
    THEN [result |-> "Failed", data |-> EmptyData]
    ELSE [result |-> "Loaded", data |-> files[i].data]

\* One `if (result != LoadResult::NotFound) return (result == Loaded);` of
\* loadBackground, with *outTiled as it is at that point.
BackgroundReturn(r, tiled) == [ok |-> r.result = "Loaded", data |-> r.data, tiled |-> tiled]

\* bool loadBackground(file, outBackground, outTiled); tiled is *outTiled,
\* which the caller initialized to false.
loadBackground(files) ==
    IF loadBackgroundFromFile(files, 1).result # "NotFound"
    THEN BackgroundReturn(loadBackgroundFromFile(files, 1), FALSE)
    ELSE IF loadBackgroundFromFile(files, 2).result # "NotFound"
    THEN BackgroundReturn(loadBackgroundFromFile(files, 2), FALSE)
    ELSE IF loadBackgroundFromFile(files, 3).result # "NotFound"
    THEN BackgroundReturn(loadBackgroundFromFile(files, 3), TRUE)
    ELSE IF loadBackgroundFromFile(files, 4).result # "NotFound"
    THEN BackgroundReturn(loadBackgroundFromFile(files, 4), TRUE)
    ELSE [ok |-> TRUE, data |-> EmptyData, tiled |-> TRUE]

\* The tail of loadTheme: the palette snapshot and the two checksums.
StampCache(cache, content, live, out) ==
    [cache EXCEPT !.colors = paletteSave(SinkPalette(live, out)),
                  !.paletteChecksum = PaletteChecksum,
                  !.contentChecksum = hashCrc32(content)]

ThemeFailed(live, out) == [ok |-> FALSE, live |-> live, out |-> out, cache |-> NoCache]
ThemeLoaded(content, cache, sink) ==
    [ok |-> TRUE, live |-> sink.live, out |-> sink.out,
     cache |-> StampCache(cache, content, sink.live, sink.out)]

\* loadTheme once the background image was written to the cache as a BMP
loadThemeSaved(content, cs, bg, background, saved) ==
    IF ~saved.ok THEN ThemeFailed(cs.live, cs.out)
    ELSE ThemeLoaded(content,
                     [NoCache EXCEPT !.background = saved.data, !.tiled = bg.tiled],
                     applyBackground(background, bg.tiled, cs.live, cs.out))

\* loadTheme once the background bytes were decoded
loadThemeImage(content, cs, bg, background) ==
    IF background = NullImage THEN ThemeFailed(cs.live, cs.out)
    ELSE loadThemeSaved(content, cs, bg, background, saveBmp(background))

\* loadTheme of a zip once loadBackground returned bg
loadThemeBackground(content, cs, bg) ==
    IF ~bg.ok THEN ThemeFailed(cs.live, cs.out)
    ELSE IF dataIsEmpty(bg.data)
    THEN ThemeLoaded(content, NoCache, [live |-> cs.live, out |-> cs.out])
    ELSE loadThemeImage(content, cs, bg, readImage(bg.data))

\* loadTheme once loadColorScheme returned cs
loadThemeScheme(content, cs) ==
    IF ~cs.ok THEN ThemeFailed(cs.live, cs.out)
    ELSE IF content.zip THEN loadThemeBackground(content, cs, loadBackground(content.files))
    ELSE ThemeLoaded(content, NoCache, [live |-> cs.live, out |-> cs.out])

\* bool loadTheme(const QByteArray &content, Cached &cache, Instance *out):
\* a zip reads its colors.tdesktop-theme entry, anything else is the scheme.
loadTheme(content, live, out) ==
    IF content.zip /\ content.colors # "ok" THEN ThemeFailed(live, out)
    ELSE loadThemeScheme(content, loadColorScheme(content.scheme, live, out))

\* The background image of a cache record: null when it holds none or when
\* it cannot be read.
cachedBackground(cache) ==
    IF dataIsEmpty(cache.background) THEN NullImage ELSE readImage(cache.background)

\* A fast path that does not look at the result of main_palette::load.
loadCachedColorsUnchecked(cache, live, background) ==
    IF background # NullImage
    THEN [ok |-> TRUE,
          live |-> applyBackground(background, cache.tiled,
                       [live EXCEPT !.palette = paletteLoad(live.palette, cache.colors)],
                       NoOut).live]
    ELSE [ok |-> TRUE, live |-> [live EXCEPT !.palette = paletteLoad(live.palette, cache.colors)]]

\* loadThemeFromCache from `style::main_palette::load(cache.colors)` on
loadCachedColors(cache, live, background) ==
    IF ~paletteLoadOk(cache.colors) THEN [ok |-> FALSE, live |-> live]
    ELSE IF background # NullImage
    THEN [ok |-> TRUE,
          live |-> applyBackground(background, cache.tiled,
                       [live EXCEPT !.palette = paletteLoad(live.palette, cache.colors)],
                       NoOut).live]
    ELSE [ok |-> TRUE, live |-> [live EXCEPT !.palette = paletteLoad(live.palette, cache.colors)]]

\* bool loadThemeFromCache(const QByteArray &content, Cached &cache)
loadThemeFromCache(content, cache, live) ==
    IF cache.paletteChecksum # PaletteChecksum THEN [ok |-> FALSE, live |-> live]
    ELSE IF cache.contentChecksum # hashCrc32(content) THEN [ok |-> FALSE, live |-> live]
    ELSE IF ~dataIsEmpty(cache.background) /\ cachedBackground(cache) = NullImage
    THEN [ok |-> FALSE, live |-> live]
    ELSE loadCachedColors(cache, live, cachedBackground(cache))

\* ------------------------------------------------------------------------
\* Background preparation
\* ------------------------------------------------------------------------
\* Pixel sizes of the images of the model.
ImageWidth(img) ==
    CASE img = "imgA" -> 100
      [] img = "imgB" -> 600
      [] img = "imgC" -> 1024
      [] img = Unwritable -> 64
      [] img = DefaultArt -> 1280
      [] img = InitialArt -> 400
      [] OTHER -> 0
ImageHeight(img) ==
    CASE img = "imgA" -> 100
      [] img = "imgB" -> 600
      [] img = "imgC" -> 300
      [] img = Unwritable -> 64
      [] img = DefaultArt -> 1024
      [] img = InitialArt -> 400
      [] OTHER -> 0

\* A repeat count rounded to the nearest whole number.
RepeatTimesRounded(dimension) == (kMinimumTiledSize + dimension \div 2) \div dimension

\* qCeil(kMinimumTiledSize / float64(dimension))
RepeatTimes(dimension) == (kMinimumTiledSize + dimension - 1) \div dimension

\* A pixmap: the image it shows, repeated rx by ry times.
NullPixmap == [img |-> NullImage, rx |-> 0, ry |-> 0]
PixmapOf(image) == [img |-> image, rx |-> 1, ry |-> 1]
pixmapIsNull(pixmap) == pixmap.img = NullImage
\* QPixmap::toImage() of the main pixmap
toImage(pixmap) == pixmap.img

\* void initColor(style::color color, float64 hue, float64 saturation):
\* lightness and alpha stay, hue and saturation become the image's.
initColor(color, image) == [color EXCEPT !.tint = image]

\* void initColorsFromBackground(const QImage &img)
initColorsFromBackground(pal, image) ==
    [n \in PaletteNames |-> IF n \in ServiceNames THEN initColor(pal[n], image) ELSE pal[n]]

\* ------------------------------------------------------------------------
\* Local storage and notifications (collaborators outside this file)
\* ------------------------------------------------------------------------
\* A world is everything an operation can read or write:
\*   bg       the ChatBackground object (instance->background)
\*   applying the pending-apply record (instance->applying)
\*   inst     whether `instance` is non-null
\*   palette  the live palette registry (style::main_palette)
\*   store    what Local has persisted
\*   ev       what the operation did to its collaborators, in order
\*   crash    a failed t_assert or a null dereference
Event(e, a, b, tile, forced) == [e |-> e, a |-> a, b |-> b, tile |-> tile, forced |-> forced]

\* Observable<BackgroundUpdate>::notify(BackgroundUpdate(type, _tile), forced)
notify(w, type, forced) ==
    [w EXCEPT !.ev = Append(@, Event("notify", type, "", w.bg.tile, forced))]

\* bool ChatBackground::tileForSave() const
tileForSave(b) ==
    IF b.id = kTestingThemeBackground \/ b.id = kTestingDefaultBackground
    THEN b.tileForRevert
    ELSE b.tile

\* void Local::writeBackground(int32 id, const QImage &img)
writeBackground(w, id, image) ==
    [w EXCEPT !.store.background = [has |-> TRUE, id |-> id, image |-> image],
              !.ev = Append(@, Event("writeBackground", id, image, FALSE, FALSE))]

\* void Local::writeUserSettings(): among the settings, Background()->tileForSave()
writeUserSettings(w) ==
    [w EXCEPT !.store.tile = tileForSave(w.bg),
              !.ev = Append(@, Event("writeUserSettings", "", "", tileForSave(w.bg), FALSE))]

contentIsEmpty(content) == ContentSize(content) = 0

\* void Local::writeTheme(pathRelative, pathAbsolute, content, cache):
\* empty content removes the stored theme.
writeTheme(w, pathRelative, pathAbsolute, content, cache) ==
    [w EXCEPT !.store.hasTheme = ~contentIsEmpty(content),
              !.store.theme = [pathRelative |-> pathRelative, pathAbsolute |-> pathAbsolute,
                               content |-> content, cache |-> cache],
              !.ev = Append(@, Event("writeTheme", pathRelative.name, pathAbsolute.name,
                                     FALSE, FALSE))]

\* ------------------------------------------------------------------------
\* ChatBackground
\* ------------------------------------------------------------------------
IsTesting(id) == id = kTestingThemeBackground \/ id = kTestingDefaultBackground

\* A default-constructed ChatBackground
NewBackground ==
    [id |-> kUninitializedBackground, tile |-> FALSE,
     themeImage |-> NullImage, themeTile |-> FALSE,
     pixmap |-> NullPixmap, pixmapForTiled |-> NullPixmap,
     idForRevert |-> kUninitializedBackground, imageForRevert |-> NullImage,
     tileForRevert |-> FALSE]

\* A QString path: the same file named relative to the working directory or
\* absolutely.  QDir().relativeFilePath / QFileInfo::absoluteFilePath switch
\* the form and keep the file.
EmptyPath == [abs |-> FALSE, name |-> ""]
pathIsEmpty(path) == path.name = ""
relativeFilePath(path) == [abs |-> FALSE, name |-> path.name]
absoluteFilePath(path) == [abs |-> TRUE, name |-> path.name]

\* Colors taken to come from a theme whenever one is stored.
colorsFromStoredTheme(w) == w.store.hasTheme

\* The first half of setPreparedImage: whether the service colors are
\* recomputed from the image.
colorsFromSomeTheme(w) ==
    IF w.inst /\ ~w.applying.paletteForRevert.empty
    THEN ~pathIsEmpty(w.applying.path)
    ELSE w.store.hasTheme
derivesColors(w) ==
    /\ w.bg.id # kThemeBackground
    /\ w.bg.id # kTestingThemeBackground
    /\ (colorsFromSomeTheme(w)
        \/ (w.bg.id # kDefaultBackground /\ w.bg.id # kTestingDefaultBackground))

\* The first half of setPreparedImage.
recolor(w, image) ==
    IF derivesColors(w)
    THEN [w EXCEPT !.palette = initColorsFromBackground(w.palette, image),
                   !.ev = Append(@, Event("initColors", image, "", FALSE, FALSE))]
    ELSE w

\* The second half of setPreparedImage: the t_assert on the size and the two
\* pixmaps.
setPixmaps(w, image, width, height) ==
    IF ~(width > 0 /\ height > 0)
    THEN [w EXCEPT !.crash = TRUE]
    ELSE [w EXCEPT !.bg.pixmap = PixmapOf(image),
                   !.bg.pixmapForTiled =
                       IF width < kMinimumTiledSize \/ height < kMinimumTiledSize
                       THEN [img |-> image, rx |-> RepeatTimes(width), ry |-> RepeatTimes(height)]
                       ELSE PixmapOf(image)]

\* void ChatBackground::setPreparedImage(QImage &&image)
setPreparedImage(w, image) ==
    setPixmaps(recolor(w, image), image, ImageWidth(image), ImageHeight(image))

\* The end of setImage: the t_assert on the pixmaps and the New notification.
setImageNotify(w) ==
    IF w.crash \/ pixmapIsNull(w.bg.pixmap) \/ pixmapIsNull(w.bg.pixmapForTiled)
    THEN [w EXCEPT !.crash = TRUE]
    ELSE notify(w, "New", FALSE)

\* setImage from `_id = id;` on
setImageAs(w, id, image) ==
    setImageNotify(
        IF id = kThemeBackground
        THEN setPreparedImage([w EXCEPT !.bg.id = id, !.bg.tile = w.bg.themeTile],
                              w.bg.themeImage)
        ELSE IF IsTesting(id)
        THEN IF id = kTestingDefaultBackground \/ image = NullImage
             THEN setPreparedImage([w EXCEPT !.bg.id = kTestingDefaultBackground], DefaultArt)
             ELSE setPreparedImage([w EXCEPT !.bg.id = id], image)
        ELSE IF id = kInitialBackground
        THEN setPreparedImage(writeBackground([w EXCEPT !.bg.id = id], id, NullImage),
                              prepareBackgroundImage(InitialArt))
        ELSE IF id = kDefaultBackground \/ image = NullImage
        THEN setPreparedImage(writeBackground([w EXCEPT !.bg.id = kDefaultBackground],
                                              kDefaultBackground, NullImage),
                              prepareBackgroundImage(DefaultArt))
        ELSE setPreparedImage(writeBackground([w EXCEPT !.bg.id = id], id, image),
                              prepareBackgroundImage(image)))

\* A setImage that takes the requested id as it is.
setImageUnchecked(w, id, image) == setImageAs(w, id, image)

\* void ChatBackground::setImage(int32 id, QImage &&image)
setImage(w, id, image) ==
    setImageAs(w,
               IF id = kThemeBackground /\ w.bg.themeImage = NullImage
               THEN kDefaultBackground ELSE id,
               image)

\* bool Local::readBackground(): restores the persisted background through
\* Background()->setImage and says whether there was one.
readBackground(w) ==
    IF w.store.background.has
    THEN [ok |-> TRUE, w |-> setImage(w, w.store.background.id, w.store.background.image)]
    ELSE [ok |-> FALSE, w |-> w]

\* start() once Local::readBackground() returned
startRead(rb) == IF rb.ok THEN rb.w ELSE setImage(rb.w, kThemeBackground, NullImage)

\* void ChatBackground::start()
start(w) ==
    IF w.bg.id = kUninitializedBackground THEN startRead(readBackground(w)) ELSE w

\* void ChatBackground::ensureStarted()
ensureStarted(w) == IF pixmapIsNull(w.bg.pixmap) THEN start(w) ELSE w

\* A setTile that saves the settings during a preview as well.
setTileStartedSaving(w, tile) ==
    IF w.bg.tile # tile
    THEN notify(writeUserSettings([w EXCEPT !.bg.tile = tile]), "Changed", FALSE)
    ELSE w

\* setTile after ensureStarted()
setTileStarted(w, tile) ==
    IF w.bg.tile # tile
    THEN notify(IF ~IsTesting(w.bg.id)
                THEN writeUserSettings([w EXCEPT !.bg.tile = tile])
                ELSE [w EXCEPT !.bg.tile = tile],
                "Changed", FALSE)
    ELSE w

\* void ChatBackground::setTile(bool tile)
setTile(w, tile) == setTileStarted(ensureStarted(w), tile)

\* void ChatBackground::reset()
reset(w) ==
    IF IsTesting(w.bg.id)
    THEN IF w.bg.themeImage = NullImage
         THEN [w EXCEPT !.bg.idForRevert = kDefaultBackground,
                        !.bg.imageForRevert = NullImage,
                        !.bg.tileForRevert = FALSE]
         ELSE [w EXCEPT !.bg.idForRevert = kThemeBackground,
                        !.bg.imageForRevert = w.bg.themeImage,
                        !.bg.tileForRevert = w.bg.themeTile]
    ELSE setImage(w, kThemeBackground, NullImage)

\* A saveForRevert that saves during a preview as well.
saveForRevertAnew(w) ==
    [w EXCEPT !.bg.idForRevert = w.bg.id,
              !.bg.imageForRevert = toImage(w.bg.pixmap),
              !.bg.tileForRevert = w.bg.tile]

\* saveForRevert after ensureStarted()
saveForRevertStarted(w) ==
    IF ~IsTesting(w.bg.id)
    THEN [w EXCEPT !.bg.idForRevert = w.bg.id,
                   !.bg.imageForRevert = toImage(w.bg.pixmap),
                   !.bg.tileForRevert = w.bg.tile]
    ELSE w

\* void ChatBackground::saveForRevert()
saveForRevert(w) == saveForRevertStarted(ensureStarted(w))

\* A preview that always goes to a testing background.
setTestingThemeAlways(w, theme) ==
    notify(setTile(setImage(saveForRevert(w), kTestingThemeBackground, theme.background),
                   theme.tiled),
           "TestingTheme", TRUE)

\* setTestingTheme after style::main_palette::apply(theme.palette)
setTestingThemeApplied(w, theme) ==
    notify(IF theme.background # NullImage \/ w.bg.id = kThemeBackground
           THEN setTile(setImage(saveForRevert(w), kTestingThemeBackground, theme.background),
                        theme.tiled)
           ELSE setImage(w, w.bg.id, toImage(w.bg.pixmap)),
           "TestingTheme", TRUE)

\* void ChatBackground::setTestingTheme(Instance &&theme)
setTestingTheme(w, theme) ==
    setTestingThemeApplied([w EXCEPT !.palette = paletteApply(theme.palette)], theme)

\* setTestingDefaultTheme after style::main_palette::reset()
setTestingDefaultThemeReset(w) ==
    notify(IF w.bg.id = kThemeBackground
           THEN setTile(setImage(saveForRevert(w), kTestingDefaultBackground, NullImage), FALSE)
           ELSE setImage(w, w.bg.id, toImage(w.bg.pixmap)),
           "TestingTheme", TRUE)

\* void ChatBackground::setTestingDefaultTheme()
setTestingDefaultTheme(w) == setTestingDefaultThemeReset([w EXCEPT !.palette = DefaultPalette])

\* The last line of writeNewBackgroundSettings
writeBackgroundOfId(w) == writeBackground(w, w.bg.id, NullImage)

\* void ChatBackground::writeNewBackgroundSettings()
writeNewBackgroundSettings(w) ==
    writeBackgroundOfId(IF w.bg.tile # w.bg.tileForRevert THEN writeUserSettings(w) ELSE w)

\* A keepApplied that does not take over the previewed image.
keepAppliedWithoutImage(w) ==
    notify(IF w.bg.id = kTestingThemeBackground
           THEN writeNewBackgroundSettings([w EXCEPT !.bg.id = kThemeBackground,
                                                     !.bg.themeTile = w.bg.tile])
           ELSE IF w.bg.id = kTestingDefaultBackground
           THEN writeNewBackgroundSettings([w EXCEPT !.bg.id = kDefaultBackground,
                                                     !.bg.themeImage = NullImage,
                                                     !.bg.themeTile = FALSE])
           ELSE w,
           "ApplyingTheme", TRUE)

\* void ChatBackground::keepApplied()
keepApplied(w) ==
    notify(IF w.bg.id = kTestingThemeBackground
           THEN writeNewBackgroundSettings([w EXCEPT !.bg.id = kThemeBackground,
                                                     !.bg.themeImage = toImage(w.bg.pixmap),
                                                     !.bg.themeTile = w.bg.tile])
           ELSE IF w.bg.id = kTestingDefaultBackground
           THEN writeNewBackgroundSettings([w EXCEPT !.bg.id = kDefaultBackground,
                                                     !.bg.themeImage = NullImage,
                                                     !.bg.themeTile = FALSE])
           ELSE w,
           "ApplyingTheme", TRUE)

\* setImage takes _imageForRevert by rvalue reference and moves it on, except
\* on the ThemeProvided path, which copies _themeImage instead.
movedImageForRevert(w) ==
    IF w.bg.id = kThemeBackground THEN w ELSE [w EXCEPT !.bg.imageForRevert = NullImage]

\* void ChatBackground::revert()
revert(w) ==
    notify(IF IsTesting(w.bg.id)
           THEN movedImageForRevert(setImage(setTile(w, w.bg.tileForRevert),
                                             w.bg.idForRevert, w.bg.imageForRevert))
           ELSE setImage(w, w.bg.id, toImage(w.bg.pixmap)),
           "RevertingTheme", TRUE)

\* ------------------------------------------------------------------------
\* Entry points
\* ------------------------------------------------------------------------
EmptyContent == PlainTheme([pad |-> 0, toks |-> <<>>])

\* A default-constructed Data::Applying
NoApplying ==
    [path |-> EmptyPath, content |-> EmptyContent, paletteForRevert |-> EmptyBytes,
     cached |-> NoCache]

\* The process-wide state a load with out = nullptr writes.
Live(w) == [palette |-> w.palette, themeImage |-> w.bg.themeImage, themeTile |-> w.bg.themeTile]
WithLive(w, live) ==
    [w EXCEPT !.palette = live.palette, !.bg.themeImage = live.themeImage,
              !.bg.themeTile = live.themeTile]

\* instance.createIfNull(): a missing instance holds default-constructed Data.
createIfNull(w) == [w EXCEPT !.inst = TRUE]

\* A Load that stores what the full load left even when it failed.
LoadFullAlwaysWrites(w, pathRelative, pathAbsolute, content, full) ==
    [ret |-> full.ok,
     w |-> writeTheme(WithLive(w, full.live), pathRelative, pathAbsolute, content, full.cache)]

\* Load once loadTheme(content, cache) returned
LoadFull(w, pathRelative, pathAbsolute, content, full) ==
    IF ~full.ok THEN [ret |-> FALSE, w |-> WithLive(w, full.live)]
    ELSE [ret |-> TRUE,
          w |-> writeTheme(WithLive(w, full.live), pathRelative, pathAbsolute, content,
                           full.cache)]

\* Load once loadThemeFromCache(content, cache) returned
LoadCached(w, pathRelative, pathAbsolute, content, fromCache) ==
    IF fromCache.ok THEN [ret |-> TRUE, w |-> WithLive(w, fromCache.live)]
    ELSE LoadFull(w, pathRelative, pathAbsolute, content, loadTheme(content, Live(w), NoOut))

\* Load after instance.createIfNull()
LoadCreated(w, pathRelative, pathAbsolute, content, cache) ==
    LoadCached(w, pathRelative, pathAbsolute, content,
               loadThemeFromCache(content, cache, Live(w)))

\* bool Load(pathRelative, pathAbsolute, content, cache)
Load(w, pathRelative, pathAbsolute, content, cache) ==
    IF ContentSize(content) < 4 THEN [ret |-> FALSE, w |-> w]
    ELSE LoadCreated(createIfNull(w), pathRelative, pathAbsolute, content, cache)

\* void Unload()
Unload(w) == [w EXCEPT !.inst = FALSE, !.bg = NewBackground, !.applying = NoApplying]

\* QByteArray readThemeContent(const QString &path), on the file found there
readThemeContent(file) ==
    IF ~file.exists THEN EmptyContent
    ELSE IF file.size > kThemeFileSizeLimit THEN EmptyContent
    ELSE IF ~file.canOpen THEN EmptyContent
    ELSE file.content

\* What LoadFromFile leaves its caller: the return, *out and *outContent.
Loaded(r, content) ==
    [ok |-> r.ok, live |-> r.live, out |-> r.out, cache |-> r.cache, content |-> content]

\* LoadFromFile once readThemeContent(path) returned
LoadFromContent(w, content) ==
    IF ContentSize(content) < 4
    THEN Loaded(ThemeFailed(Live(w), NewInstance), content)
    ELSE Loaded(loadTheme(content, Live(w), NewInstance), content)

\* bool LoadFromFile(const QString &path, Instance *out, QByteArray *outContent)
LoadFromFile(w, file) == LoadFromContent(w, readThemeContent(file))

\* A snapshot that every preview takes anew.
snapshotAlways(applying, pal) == paletteSave(pal)

\* The palette snapshot kept for Revert: taken only when none is held.
snapshotForRevert(applying, pal) ==
    IF applying.paletteForRevert.empty THEN paletteSave(pal) ELSE applying.paletteForRevert

\* The assignments to instance->applying of Apply(preview) and ApplyDefault
setApplying(w, path, content, cached) ==
    [w EXCEPT !.applying =
        [path |-> path, content |-> content, cached |-> cached,
         paletteForRevert |-> snapshotForRevert(w.applying, w.palette)]]

\* bool Apply(std_::unique_ptr<Preview> preview)
ApplyPreview(w, path, content, instance, cached) ==
    setTestingTheme(setApplying(createIfNull(w), path, content, cached), instance)

\* Apply(filepath) once LoadFromFile returned
ApplyLoaded(w, path, lf) ==
    IF ~lf.ok THEN [ret |-> FALSE, w |-> WithLive(w, lf.live)]
    ELSE [ret |-> TRUE, w |-> ApplyPreview(w, path, lf.content, lf.out, lf.cache)]

\* bool Apply(const QString &filepath)
Apply(w, path, file) == ApplyLoaded(w, path, LoadFromFile(w, file))

\* void ApplyDefault()
ApplyDefault(w) ==
    setTestingDefaultTheme(setApplying(createIfNull(w), EmptyPath, EmptyContent, NoCache))

\* A pending record that is never cleared.
keepApplying(w) == w

\* instance->applying = Data::Applying()
clearApplying(w) == [w EXCEPT !.applying = NoApplying]

\* void KeepApplied()
KeepApplied(w) ==
    IF ~w.inst THEN w
    ELSE keepApplied(clearApplying(
             writeTheme(w,
                 IF pathIsEmpty(w.applying.path) THEN EmptyPath
                 ELSE relativeFilePath(w.applying.path),
                 IF pathIsEmpty(w.applying.path) THEN EmptyPath
                 ELSE absoluteFilePath(w.applying.path),
                 w.applying.content, w.applying.cached)))

\* A Revert that leaves the pending record in place.
RevertWithoutClearing(w) ==
    IF ~w.inst THEN [w EXCEPT !.crash = TRUE]
    ELSE revert(IF ~w.applying.paletteForRevert.empty
                THEN [w EXCEPT !.palette = paletteLoad(w.palette, w.applying.paletteForRevert)]
                ELSE w)

\* void Revert(): `instance` is dereferenced unchecked.
Revert(w) ==
    IF ~w.inst THEN [w EXCEPT !.crash = TRUE]
    ELSE revert(clearApplying(
             IF ~w.applying.paletteForRevert.empty
             THEN [w EXCEPT !.palette = paletteLoad(w.palette, w.applying.paletteForRevert)]
             ELSE w))

\* Revert() while `instance` is null: `instance->applying` is undefined
\* behaviour.  The read faults, or it goes through on whatever is there (here:
\* nothing to restore) and Background() then constructs the instance.
RevertOutcomes(w) ==
    IF w.inst THEN {Revert(w)}
    ELSE {Revert(w), revert(createIfNull(w))}

\* ------------------------------------------------------------------------
\* Inputs
\* ------------------------------------------------------------------------
\* name: value;
Entry(name, valueTok) == <<Word(name), Colon, valueTok, Semi>>

hex336699 == <<"3", "3", "6", "6", "9", "9">>
hex33669980 == <<"3", "3", "6", "6", "9", "9", "8", "0">>
hexfff000 == <<"f", "f", "f", "0", "0", "0">>
hex12345 == <<"1", "2", "3", "4", "5">>
hex000 == <<"0", "0", "0">>
hexff00gg == <<"f", "f", "0", "0", "g", "g">>

\* Theme files on disk.
SchemeA == [pad |-> 0, toks |-> Entry(windowBg, HashWord(hex336699))]
SchemeB == [pad |-> 0, toks |-> Entry(windowBg, HashWord(hexfff000))
                                \o Entry(msgServiceBg, HashWord(hex33669980))]
SchemeBad == [pad |-> 0, toks |-> Entry(windowBg, HashWord(hexfff000))
                                  \o Entry(msgServiceBg, HashWord(hexff00gg))]
ThemeA == ZipTheme(SchemeA, "ok", [NoFiles EXCEPT ![4] = Found(Encoded("png", "imgA"))])
ThemeB == PlainTheme(SchemeB)
ThemeBad == PlainTheme(SchemeBad)
ThemeBadBg == ZipTheme(SchemeB, "ok", [NoFiles EXCEPT ![1] = Found(Garbage)])
ThemeShort == PlainTheme([pad |-> 0, toks |-> <<Word(windowBg)>>])

FileOf(content) ==
    [exists |-> TRUE, size |-> ContentSize(content), canOpen |-> TRUE, content |-> content]
FileNames == {"a", "b", "bad", "badbg", "short", "missing", "huge", "locked"}
FileSystem ==
    [n \in FileNames |->
        CASE n = "a" -> FileOf(ThemeA)
          [] n = "b" -> FileOf(ThemeB)
          [] n = "bad" -> FileOf(ThemeBad)
          [] n = "badbg" -> FileOf(ThemeBadBg)
          [] n = "short" -> FileOf(ThemeShort)
          [] n = "missing" -> [FileOf(ThemeA) EXCEPT !.exists = FALSE]
          [] n = "huge" -> [FileOf(ThemeA) EXCEPT !.size = kThemeFileSizeLimit + 1]
          [] OTHER -> [FileOf(ThemeA) EXCEPT !.canOpen = FALSE]]
PathTo(n) == [abs |-> n \in {"b", "bad"}, name |-> n]

\* What Local::readTheme hands to Load: a theme file, and the cache record
\* stored with the last theme or none.
LoadNames == {"a", "bad", "short"}
StoredCaches(stored) == {NoCache, stored}

\* ------------------------------------------------------------------------
\* State
\* ------------------------------------------------------------------------
VARIABLES
    inst,       \* `instance` is non-null
    bg,         \* instance->background
    applying,   \* instance->applying
    palette,    \* style::main_palette
    store,      \* Local storage
    out,        \* the last operation: its name, file argument, return value and events
    crashed,    \* a t_assert failed or a null pointer was dereferenced
    hist,       \* the state before the current chain of Apply calls
    steps,      \* operations done so far
    probe,      \* input of a single run of the loader
    presult,    \* result of that run
    tiling      \* position in the tiling loop of a single run of setPreparedImage

vars == <<inst, bg, applying, palette, store, out, crashed, hist, steps, probe, presult,
          tiling>>

NoTheme ==
    [pathRelative |-> EmptyPath, pathAbsolute |-> EmptyPath, content |-> EmptyContent,
     cache |-> NoCache]
NoBackground == [has |-> FALSE, id |-> kUninitializedBackground, image |-> NullImage]
InitialStores ==
    {[background |-> b, hasTheme |-> FALSE, theme |-> NoTheme, tile |-> FALSE] :
        b \in {NoBackground, [has |-> TRUE, id |-> kCustomBackground, image |-> "imgC"]}}

Snapshot(w) == [palette |-> w.palette, id |-> w.bg.id, tile |-> w.bg.tile]
NoHist == [pre |-> [palette |-> DefaultPalette, id |-> kUninitializedBackground, tile |-> FALSE],
           chain |-> 0, reverted |-> 0]

NoProbe == [kind |-> "none"]
NoResult == [done |-> FALSE]
NoTiling == [phase |-> "none"]

World ==
    [bg |-> bg, applying |-> applying, inst |-> inst, palette |-> palette, store |-> store,
     ev |-> <<>>, crash |-> FALSE]

\* No preview is outstanding: nothing to revert to and no testing background.
NoPreview(w) == w.applying.paletteForRevert.empty /\ ~IsTesting(w.bg.id)

Commit(w, op, arg, ret, h) ==
    /\ inst' = w.inst
    /\ bg' = w.bg
    /\ applying' = w.applying
    /\ palette' = w.palette
    /\ store' = w.store
    /\ crashed' = w.crash
    /\ out' = [op |-> op, arg |-> arg, ret |-> ret, ev |-> w.ev]
    /\ hist' = h
    /\ steps' = steps + 1
    /\ UNCHANGED <<probe, presult, tiling>>

\* The program runs on until an assertion fails.
CanStep == ~crashed /\ steps < MaxOps

Init ==
    /\ inst = FALSE
    /\ bg = NewBackground
    /\ applying = NoApplying
    /\ palette = DefaultPalette
    /\ store \in InitialStores
    /\ out = [op |-> "none", arg |-> "", ret |-> TRUE, ev |-> <<>>]
    /\ crashed = FALSE
    /\ hist = NoHist
    /\ steps = 0
    /\ probe = NoProbe
    /\ presult = NoResult
    /\ tiling = NoTiling

\* ------------------------------------------------------------------------
\* Operations
\* ------------------------------------------------------------------------
\* An operation that returns a value: r is its return and the world it left.
CommitResult(r, op, arg, h) == Commit(r.w, op, arg, r.ret, h)

DoLoad ==
    /\ CanStep
    /\ \E n \in LoadNames, cache \in StoredCaches(store.theme.cache) :
          CommitResult(Load(World, relativeFilePath(PathTo(n)), absoluteFilePath(PathTo(n)),
                            FileSystem[n].content, cache),
                       "Load", n, NoHist)

DoUnload ==
    /\ CanStep
    /\ Commit(Unload(World), "Unload", "", TRUE, NoHist)

\* A chain of Apply calls starts where no preview is outstanding.
HistAfterApply(w, ret) ==
    IF ~ret THEN NoHist
    ELSE IF hist.chain > 0 THEN [hist EXCEPT !.chain = @ + 1, !.reverted = 0]
    ELSE IF NoPreview(w) THEN [pre |-> Snapshot(w), chain |-> 1, reverted |-> 0]
    ELSE NoHist

CommitApply(r, n) == Commit(r.w, "Apply", n, r.ret, HistAfterApply(World, r.ret))

DoApply ==
    /\ CanStep
    /\ \E n \in FileNames : CommitApply(Apply(World, PathTo(n), FileSystem[n]), n)

DoApplyDefault ==
    /\ CanStep
    /\ Commit(ApplyDefault(World), "ApplyDefault", "", TRUE, NoHist)

DoKeepApplied ==
    /\ CanStep
    /\ Commit(KeepApplied(World), "KeepApplied", "", TRUE, NoHist)

DoRevert ==
    /\ CanStep
    /\ \E reverted \in RevertOutcomes(World) :
          Commit(reverted, "Revert", "", TRUE,
                 [pre |-> hist.pre, chain |-> 0, reverted |-> hist.chain])

\* Background()->start()
DoStart ==
    /\ CanStep
    /\ Commit(start(createIfNull(World)), "start", "", TRUE, NoHist)

\* Background()->setImage(id, image): a picked image, or a built-in id
DoSetImage ==
    /\ CanStep
    /\ \E pick \in {<<kCustomBackground, "imgC">>, <<kDefaultBackground, NullImage>>} :
          Commit(setImage(createIfNull(World), pick[1], pick[2]), "setImage", "", TRUE, NoHist)

\* Background()->setTile(tile)
DoSetTile ==
    /\ CanStep
    /\ \E tile \in BOOLEAN :
          Commit(setTile(createIfNull(World), tile), "setTile",
                 IF tile THEN "true" ELSE "false", TRUE, NoHist)

\* Background()->reset()
DoReset ==
    /\ CanStep
    /\ Commit(reset(createIfNull(World)), "reset", "", TRUE, NoHist)

Next ==
    \/ DoLoad
    \/ DoUnload
    \/ DoApply
    \/ DoApplyDefault
    \/ DoKeepApplied
    \/ DoRevert
    \/ DoStart
    \/ DoSetImage
    \/ DoSetTile
    \/ DoReset

Spec == Init /\ [][Next]_vars

\* ------------------------------------------------------------------------
\* Single runs of the loader on enumerated inputs
\* ------------------------------------------------------------------------
\* Color schemes of up to MaxEntries entries.  a and b are names the palette
\* does not know.
nameA == <<"a">>
nameB == <<"b">>
ProbeNames == {nameA, nameB, windowBg}
ProbeValues ==
    {HashWord(hexfff000), HashWord(hex000), HashWord(hexff00gg), Word(nameA), Word(nameB)}
GoodEntries == {Entry(n, v) : n \in ProbeNames, v \in ProbeValues}
NoSemiEntry == <<Word(windowBg), Colon, HashWord(hexfff000)>>
NoColonEntry == <<Word(windowBg), HashWord(hexfff000), Semi>>
EntryPool == GoodEntries \cup {NoSemiEntry, NoColonEntry}

\* The tokens of the k entries f[1], ..., f[k].
RECURSIVE TokensOf(_, _)
TokensOf(f, k) == IF k = 0 THEN <<>> ELSE TokensOf(f, k - 1) \o f[k]

SchemeProbe(scheme) ==
    [kind |-> "scheme", toOut |-> FALSE, content |-> PlainTheme(scheme), cache |-> NoCache]
\* Some more schemes: other values, and one over the size limit.
MoreSchemeProbes ==
    {SchemeProbe([pad |-> 0, toks |-> t]) :
        t \in {Entry(windowBg, HashWord(hex12345)),
               Entry(nameA, HashWord(hex12345)) \o Entry(windowBg, Word(nameA)),
               Entry(windowBg, HashWord(hex33669980)),
               Entry(windowBg, Word(msgServiceBg)),
               Entry(msgServiceBg, HashWord(hexfff000)) \o Entry(windowBg, Word(msgServiceBg))}}
    \cup {SchemeProbe([SchemeA EXCEPT !.pad = kThemeSchemeSizeLimit])}

\* Zip themes with every combination of the four background entries.
EntryStates ==
    {Absent, ReadError, Found(EmptyData), Found(Garbage), Found(Encoded("jpg", "imgA")),
     Found(Encoded("png", Unwritable)), Oversize(Encoded("jpg", "imgB"))}
ThemeProbes ==
    {[kind |-> "theme", toOut |-> o, content |-> ZipTheme(SchemeA, "ok", f), cache |-> NoCache] :
        o \in BOOLEAN, f \in [1..4 -> EntryStates]}
    \cup {[kind |-> "theme", toOut |-> o, content |-> c, cache |-> NoCache] :
            o \in BOOLEAN,
            c \in {ZipTheme(SchemeA, "missing", NoFiles), ThemeBad, ThemeB,
                   ZipTheme(SchemeBad, "ok", [NoFiles EXCEPT ![1] = Found(Encoded("jpg", "imgA"))])}}

\* Load with a cache record: the record a full load of some theme produced,
\* possibly stale or damaged, handed in with that theme or another one.
\* Colors that no theme file of the model gives.
OtherPalette == [DefaultPalette EXCEPT ![windowBg] = MakeColor(1, 2, 3, 255)]
FreshLive == [palette |-> DefaultPalette, themeImage |-> NullImage, themeTile |-> FALSE]
TrueCache(content) == loadTheme(content, FreshLive, NoOut).cache
CacheInputs(stored) ==
    {NoCache, stored,
     [stored EXCEPT !.paletteChecksum = OldPaletteChecksum],
     [stored EXCEPT !.background = Garbage],
     [stored EXCEPT !.colors = CorruptColors],
     [stored EXCEPT !.colors = paletteSave(OtherPalette)]}
\* ThemeA with one character of its content changed.
ThemeA2 ==
    ZipTheme([pad |-> 0, toks |-> Entry(windowBg, HashWord(<<"3", "3", "6", "6", "9", "8">>))],
             "ok", ThemeA.files)
CacheProbes ==
    {[kind |-> "cache", toOut |-> FALSE, content |-> c, cache |-> k] :
        c \in {ThemeA, ThemeA2, ThemeB, ThemeBad, ThemeShort},
        k \in CacheInputs(TrueCache(ThemeA)) \cup CacheInputs(TrueCache(ThemeB))}

InitLoader ==
    /\ inst = FALSE
    /\ bg = NewBackground
    /\ applying = NoApplying
    /\ palette = DefaultPalette
    /\ store = [background |-> NoBackground, hasTheme |-> FALSE, theme |-> NoTheme,
                tile |-> FALSE]
    /\ out = [op |-> "none", arg |-> "", ret |-> TRUE, ev |-> <<>>]
    /\ crashed = FALSE
    /\ hist = NoHist
    /\ steps = 0
    /\ \/ \E k \in 0..MaxEntries : \E f \in [1..k -> EntryPool] :
             probe = SchemeProbe([pad |-> 0, toks |-> TokensOf(f, k)])
       \/ probe \in MoreSchemeProbes \cup ThemeProbes \cup CacheProbes
    /\ presult = NoResult
    /\ tiling = NoTiling

ProbeOut == IF probe.toOut THEN NewInstance ELSE NoOut
Finish(r) ==
    /\ presult' = [done |-> TRUE, r |-> r]
    /\ UNCHANGED <<inst, bg, applying, palette, store, out, crashed, hist, steps, probe,
                   tiling>>

RunLoadColorScheme ==
    /\ probe.kind = "scheme"
    /\ ~presult.done
    /\ Finish(loadColorScheme(probe.content.scheme, Live(World), ProbeOut))

RunLoadTheme ==
    /\ probe.kind = "theme"
    /\ ~presult.done
    /\ Finish(loadTheme(probe.content, Live(World), ProbeOut))

RunLoad ==
    /\ probe.kind = "cache"
    /\ ~presult.done
    /\ Finish(Load(World, relativeFilePath(PathTo("a")), absoluteFilePath(PathTo("a")),
                   probe.content, probe.cache))

NextLoader ==
    \/ RunLoadColorScheme
    \/ RunLoadTheme
    \/ RunLoad

SpecLoader == InitLoader /\ [][NextLoader]_vars

\* ------------------------------------------------------------------------
\* Single runs of the second half of setPreparedImage, copy by copy
\* ------------------------------------------------------------------------
\* Image sizes: small in both directions, in one, in none.
TileSizes ==
    {<<100, 100>>, <<64, 64>>, <<256, 256>>, <<600, 200>>, <<300, 1024>>, <<511, 512>>,
     <<512, 512>>, <<600, 600>>, <<1024, 512>>}

\* sizeof(uint32)
BytesPerPixel == 4
\* QImage::bytesPerLine() of a 32 bit image: scanlines are 32 bit aligned.
bytesPerLine(width) == ((width * 32 + 31) \div 32) * 4

\* setPreparedImage from `auto width = image.width();` up to the loops;
\* offsets are in bytes from bits() / constBits().
tilingStart(width, height) ==
    IF width < kMinimumTiledSize \/ height < kMinimumTiledSize
    THEN [phase |-> "copy", width |-> width, height |-> height,
          repeatTimesX |-> RepeatTimes(width), repeatTimesY |-> RepeatTimes(height),
          tiledWidth |-> width * RepeatTimes(width),
          tiledHeight |-> height * RepeatTimes(height),
          bytesInLine |-> width * BytesPerPixel,
          timesY |-> 0, y |-> 0, timesX |-> 0,
          imageBytes |-> 0, imageForTiledBytes |-> 0, copies |-> 0]
    ELSE [phase |-> "done", width |-> width, height |-> height, small |-> FALSE,
          tiledWidth |-> width, tiledHeight |-> height, copies |-> 0]

\* `_pixmapForTiled = App::pixmapFromImageInPlace(std_::move(imageForTiled));`
tilingEnd(t) ==
    [phase |-> "done", width |-> t.width, height |-> t.height, small |-> TRUE,
     tiledWidth |-> t.tiledWidth, tiledHeight |-> t.tiledHeight, copies |-> t.copies]

\* The end of one pass of the loop over timesY.
tilingNextTimesY(t) ==
    IF t.timesY + 1 # t.repeatTimesY
    THEN [t EXCEPT !.timesY = @ + 1, !.y = 0, !.imageBytes = 0]
    ELSE tilingEnd(t)

\* The end of one pass of the loop over y.
tilingNextY(t) ==
    IF t.y + 1 # t.height
    THEN [t EXCEPT !.y = @ + 1]
    ELSE tilingNextTimesY(t)

\* One memcpy(imageForTiledBytes, imageBytes, bytesInLine) and what follows
\* it up to the next one.
tilingCopy(t) ==
    IF t.timesX + 1 # t.repeatTimesX
    THEN [t EXCEPT !.timesX = @ + 1,
                   !.imageForTiledBytes = @ + t.bytesInLine,
                   !.copies = @ + 1]
    ELSE tilingNextY(
             [t EXCEPT !.timesX = 0,
                       !.imageBytes = @ + bytesPerLine(t.width),
                       !.imageForTiledBytes =
                           @ + t.bytesInLine
                             + (bytesPerLine(t.tiledWidth) - t.repeatTimesX * t.bytesInLine),
                       !.copies = @ + 1])

InitTile ==
    /\ inst = FALSE
    /\ bg = NewBackground
    /\ applying = NoApplying
    /\ palette = DefaultPalette
    /\ store = [background |-> NoBackground, hasTheme |-> FALSE, theme |-> NoTheme,
                tile |-> FALSE]
    /\ out = [op |-> "none", arg |-> "", ret |-> TRUE, ev |-> <<>>]
    /\ crashed = FALSE
    /\ hist = NoHist
    /\ steps = 0
    /\ probe = NoProbe
    /\ presult = NoResult
    /\ \E size \in TileSizes : tiling = [phase |-> "start", width |-> size[1], height |-> size[2]]

TileStart ==
    /\ tiling.phase = "start"
    /\ tiling' = tilingStart(tiling.width, tiling.height)
    /\ UNCHANGED <<inst, bg, applying, palette, store, out, crashed, hist, steps, probe, presult>>

TileCopy ==
    /\ tiling.phase = "copy"
    /\ tiling' = tilingCopy(tiling)
    /\ UNCHANGED <<inst, bg, applying, palette, store, out, crashed, hist, steps, probe, presult>>

NextTile ==
    \/ TileStart
    \/ TileCopy

SpecTile == InitTile /\ [][NextTile]_vars

\* ------------------------------------------------------------------------
\* Single calls of Background()->setImage(id, image)
\* ------------------------------------------------------------------------
BackgroundIds ==
    {kUninitializedBackground, kTestingThemeBackground, kTestingDefaultBackground,
     kThemeBackground, kDefaultBackground, kInitialBackground, kCustomBackground}
RequestedImages == {NullImage, "imgA", "imgB", "imgC"}

\* The program before the call: fresh, or after some calls from fresh.
FreshWorld ==
    [bg |-> NewBackground, applying |-> NoApplying, inst |-> FALSE, palette |-> DefaultPalette,
     store |-> [background |-> NoBackground, hasTheme |-> FALSE, theme |-> NoTheme,
                tile |-> FALSE],
     ev |-> <<>>, crash |-> FALSE]
LoadedA ==
    Load(FreshWorld, relativeFilePath(PathTo("a")), absoluteFilePath(PathTo("a")), ThemeA,
         NoCache).w
PreNames == {"fresh", "loaded", "started", "previewDefault", "previewA", "previewB", "kept"}
PreWorldAfterCalls(pre) ==
    CASE pre = "fresh" -> createIfNull(FreshWorld)
      [] pre = "loaded" -> LoadedA
      [] pre = "started" -> start(LoadedA)
      [] pre = "previewDefault" -> ApplyDefault(start(LoadedA))
      [] pre = "previewA" -> Apply(FreshWorld, PathTo("a"), FileSystem["a"]).w
      [] pre = "previewB" -> Apply(FreshWorld, PathTo("b"), FileSystem["b"]).w
      [] OTHER -> KeepApplied(Apply(FreshWorld, PathTo("b"), FileSystem["b"]).w)
PreWorld(pre) == [PreWorldAfterCalls(pre) EXCEPT !.ev = <<>>]

InitImage ==
    /\ inst = FALSE
    /\ bg = NewBackground
    /\ applying = NoApplying
    /\ palette = DefaultPalette
    /\ store = [background |-> NoBackground, hasTheme |-> FALSE, theme |-> NoTheme,
                tile |-> FALSE]
    /\ out = [op |-> "none", arg |-> "", ret |-> TRUE, ev |-> <<>>]
    /\ crashed = FALSE
    /\ hist = NoHist
    /\ steps = 0
    /\ \E pre \in PreNames, id \in BackgroundIds, image \in RequestedImages :
          probe = [kind |-> "image", pre |-> pre, w |-> PreWorld(pre), id |-> id,
                   image |-> image]
    /\ presult = NoResult
    /\ tiling = NoTiling

RunSetImage ==
    /\ probe.kind = "image"
    /\ ~presult.done
    /\ Finish([w |-> setImage(probe.w, probe.id, probe.image)])

NextImage == RunSetImage

SpecImage == InitImage /\ [][NextImage]_vars

\* ------------------------------------------------------------------------
\* Properties
\* ------------------------------------------------------------------------
\* What the last step, taken as an operation of the program, was.
Did(op) == out.op = op /\ ~crashed
Wrote(ev, e) == \E i \in 1..Len(ev) : ev[i].e = e

\* C1: Apply(themeA) ; Revert(), and Apply(themeA) ; Apply(themeB) ; Revert(),
\* started where no preview is outstanding and the background has been
\* started, leave the live palette, the background id and the tile flag as
\* they were just before the first Apply.
C1_RevertRestoresPreApplyState ==
    (Did("Revert") /\ hist.reverted \in {1, 2} /\ hist.pre.id # kUninitializedBackground)
        => /\ palette = hist.pre.palette
           /\ bg.id = hist.pre.id
           /\ bg.tile = hist.pre.tile

\* C2: an Apply(filepath) that fails returns false and leaves the live
\* palette, the whole background object, the pending-apply record, the
\* instance and the storage as they were; the file kinds that must fail do.
FailingFiles == {"missing", "huge", "locked", "short", "bad", "badbg"}
C2_FailedApplyChangesNothing ==
    [][(out'.op = "Apply")
         => /\ out'.arg \in FailingFiles => ~out'.ret
            /\ ~out'.ret => /\ palette' = palette
                            /\ bg' = bg
                            /\ applying' = applying
                            /\ inst' = inst
                            /\ store' = store
                            /\ out'.ev = <<>>
                            /\ ~crashed']_vars

\* A theme with a malformed color after a valid one was refused while a
\* preview was pending.
C2_Witness ==
    /\ Did("Apply") /\ out.arg = "bad" /\ ~out.ret
    /\ IsTesting(bg.id)
    /\ ~applying.paletteForRevert.empty
    /\ palette # DefaultPalette

\* C3: a Load that returns false leaves the live palette and the theme
\* image and theme tile of the background as they were before the call.
C3_FailedLoadChangesNothing ==
    [][(out'.op = "Load" /\ ~out'.ret)
         => /\ palette' = palette
            /\ bg'.themeImage = bg.themeImage
            /\ bg'.themeTile = bg.themeTile]_vars

\* C4: a preview (Apply or ApplyDefault) made while no snapshot is held
\* stores the palette of just before it in paletteForRevert; a preview made
\* while one is held leaves it; and only KeepApplied, Revert and Unload
\* drop it.
C4_SnapshotTakenOnce ==
    [][/\ (out'.op \in {"Apply", "ApplyDefault"} /\ out'.ret /\ applying.paletteForRevert.empty)
            => /\ ~applying'.paletteForRevert.empty
               /\ applying'.paletteForRevert.ok
               /\ applying'.paletteForRevert.pal = palette
       /\ ~applying.paletteForRevert.empty
            => \/ applying'.paletteForRevert = applying.paletteForRevert
               \/ out'.op \in {"KeepApplied", "Revert", "Unload"}]_vars

\* A second Apply in one session: the snapshot is still the palette of
\* before the first, though the live palette has moved on twice.
C4_Witness ==
    /\ Did("Apply") /\ out.ret /\ hist.chain = 2
    /\ applying.paletteForRevert.pal = hist.pre.palette
    /\ palette # hist.pre.palette

\* C5: KeepApplied() right after a successful Apply(filepath) leaves a
\* background id that is not a testing one, has written the previewed
\* content and cache under the relative and the absolute form of the path,
\* and leaves a default pending-apply record.
C5_KeepAppliedPersists ==
    [][(out.op = "Apply" /\ out.ret /\ out'.op = "KeepApplied")
         => /\ bg'.id # kTestingThemeBackground
            /\ bg'.id # kTestingDefaultBackground
            /\ Wrote(out'.ev, "writeTheme")
            /\ store'.hasTheme
            /\ store'.theme.pathRelative = [abs |-> FALSE, name |-> out.arg]
            /\ store'.theme.pathAbsolute = [abs |-> TRUE, name |-> out.arg]
            /\ store'.theme.content = FileSystem[out.arg].content
            /\ store'.theme.cache = applying.cached
            /\ store'.theme.cache.contentChecksum = hashCrc32(FileSystem[out.arg].content)
            /\ applying'.path.name = ""
            /\ applying'.content = EmptyContent
            /\ applying'.cached = NoCache
            /\ applying'.paletteForRevert.empty]_vars

\* Apply("a") ; KeepApplied() from a fresh process.
C5_Witness ==
    /\ Did("KeepApplied") /\ steps = 2
    /\ store.hasTheme
    /\ store.theme.pathAbsolute = [abs |-> TRUE, name |-> "a"]
    /\ store.theme.content = ThemeA
    /\ bg.id = kThemeBackground
    /\ applying = NoApplying

\* --- single runs of Load with a cache record
CacheRun == presult.done /\ probe.kind = "cache" /\ ContentSize(probe.content) >= 4
ChecksumsMatch ==
    /\ probe.cache.paletteChecksum = PaletteChecksum
    /\ probe.cache.contentChecksum = hashCrc32(probe.content)
\* The fast path returned true: Load succeeded without the full reload's
\* writeTheme.
Accepted == presult.r.ret /\ ~Wrote(presult.r.w.ev, "writeTheme")
FullReloadOk == loadTheme(probe.content, FreshLive, NoOut).ok
RejectedMeansFullReload ==
    ~Accepted => /\ presult.r.ret = FullReloadOk
                 /\ presult.r.ret => Wrote(presult.r.w.ev, "writeTheme")

\* C6 as stated: the fast path accepts the record if and only if both
\* checksums match, and a rejected record leads to a full reload.
C6_AcceptedIffChecksumsMatch ==
    CacheRun => /\ Accepted <=> ChecksumsMatch
                /\ RejectedMeansFullReload

\* C6: the fast path accepts the record if and only if both checksums match,
\* its background bytes (if any) decode to an image and its colors load; an
\* accepted record becomes the live palette, and a rejected one leads to a
\* full reload whose result is Load's result.
C6_AcceptedIffRecordLoads ==
    CacheRun => /\ Accepted <=> /\ ChecksumsMatch
                                /\ \/ probe.cache.background.fmt = "empty"
                                   \/ probe.cache.background.fmt \in {"jpg", "png", "bmp"}
                                /\ probe.cache.colors.ok
                /\ Accepted => presult.r.w.palette = probe.cache.colors.pal
                /\ RejectedMeansFullReload

\* A record with both checksums right and undecodable background bytes was
\* rejected and the theme loaded in full.
C6_Witness ==
    /\ CacheRun /\ ChecksumsMatch
    /\ probe.cache.background = Garbage
    /\ presult.r.ret
    /\ Wrote(presult.r.w.ev, "writeTheme")

\* --- single runs of loadColorScheme
SchemeRun ==
    /\ presult.done /\ probe.kind = "scheme"
    /\ SchemeSize(probe.content.scheme) <= kThemeSchemeSizeLimit
Toks == probe.content.scheme.toks
\* Every entry is `name : value ;`
WellFormed(toks) ==
    /\ Len(toks) % 4 = 0
    /\ \A i \in 1..(Len(toks) \div 4) :
          /\ toks[4 * i - 3].k = "word" /\ ~toks[4 * i - 3].hash
          /\ toks[4 * i - 2].k = "colon"
          /\ toks[4 * i - 1].k = "word"
          /\ toks[4 * i].k = "semi"
Entries(toks) == 1..(Len(toks) \div 4)
NameOf(toks, i) == toks[4 * i - 3].s
ValueOf(toks, i) == toks[4 * i - 1]
IsHexDigit(c) == InSeq(DecDigits, c) \/ InSeq(LowerHex, c) \/ InSeq(UpperHex, c)
\* '#' and 6 or 8 characters, one of them no hex digit
MalformedHex(t) ==
    /\ t.k = "word" /\ t.hash /\ Len(t.s) \in {6, 8}
    /\ \E k \in 1..Len(t.s) : ~IsHexDigit(t.s[k])
\* '#' and another number of characters
OtherLengthHash(t) == t.k = "word" /\ t.hash /\ Len(t.s) \notin {6, 8}
HasOtherLengthHash(toks) == \E k \in 1..Len(toks) : OtherLengthHash(toks[k])
NoMalformedHex(toks) == \A k \in 1..Len(toks) : ~MalformedHex(toks[k])
Colorfff000 == MakeColor(255, 240, 0, 255)

\* C7 as stated: a scheme with a '#' value that is not 7 or 9 characters
\* long fails; "windowBg: #fff000; b: #000;" fails with windowBg applied.
C7_OtherLengthHashIsFatal ==
    SchemeRun
        => /\ HasOtherLengthHash(Toks) => ~presult.r.ok
           /\ Toks = Entry(windowBg, HashWord(hexfff000)) \o Entry(nameB, HashWord(hex000))
                => presult.r.live.palette[windowBg] = Colorfff000

\* C7: only a '#' value of 7 or 9 characters with a character that is no
\* hex digit is a fatal color error: loadColorScheme succeeds exactly on the
\* well-formed schemes without one.  A '#' value of another length is looked
\* up as a named value, is not found, and is remembered under the entry's
\* name while parsing goes on.
C7_OnlyMalformedHexIsFatal ==
    SchemeRun
        => /\ presult.r.ok <=> (WellFormed(Toks) /\ NoMalformedHex(Toks))
           /\ presult.r.ok
                => \A i \in Entries(Toks) :
                      (/\ OtherLengthHash(ValueOf(Toks, i))
                       /\ \A j \in Entries(Toks) : j > i => NameOf(Toks, j) # NameOf(Toks, i))
                      => /\ NameOf(Toks, i) \in DOMAIN presult.r.unsupported
                         /\ presult.r.unsupported[NameOf(Toks, i)]
                                = <<"#">> \o ValueOf(Toks, i).s
           /\ Toks = Entry(windowBg, HashWord(hexfff000)) \o Entry(nameB, HashWord(hex000))
                => presult.r.ok /\ presult.r.live.palette[windowBg] = Colorfff000

\* "windowBg: #fff000; b: #000;" was parsed to its end.
C7_Witness ==
    /\ SchemeRun
    /\ Toks = Entry(windowBg, HashWord(hexfff000)) \o Entry(nameB, HashWord(hex000))
    /\ presult.r.ok
    /\ presult.r.live.palette[windowBg] = Colorfff000
    /\ presult.r.unsupported[nameB] = <<"#", "0", "0", "0">>

\* C8: on a well-formed scheme without a malformed hex color loadColorScheme
\* succeeds; every entry whose name the palette does not know, or whose
\* plain value names neither a palette color nor an earlier entry, is in the
\* unsupported map under its name; and a known entry at the end is applied.
C8_UnknownNameIsNotFatal ==
    (SchemeRun /\ WellFormed(Toks) /\ NoMalformedHex(Toks))
        => /\ presult.r.ok
           /\ \A i \in Entries(Toks) :
                 (\/ NameOf(Toks, i) \notin PaletteNames
                  \/ /\ ~ValueOf(Toks, i).hash
                     /\ ValueOf(Toks, i).s \notin PaletteNames
                     /\ \A j \in Entries(Toks) : j < i => NameOf(Toks, j) # ValueOf(Toks, i).s)
                 => NameOf(Toks, i) \in DOMAIN presult.r.unsupported
           /\ (Len(Toks) > 0 /\ NameOf(Toks, Len(Toks) \div 4) = windowBg
                             /\ ValueOf(Toks, Len(Toks) \div 4) = HashWord(hexfff000))
                 => presult.r.live.palette[windowBg] = Colorfff000

\* "a: b; b: #fff000; windowBg: #fff000;": two unknown names, then a known
\* one that was applied.
C8_Witness ==
    /\ SchemeRun
    /\ Toks = Entry(nameA, Word(nameB)) \o Entry(nameB, HashWord(hexfff000))
                \o Entry(windowBg, HashWord(hexfff000))
    /\ presult.r.ok
    /\ DOMAIN presult.r.unsupported = {nameA, nameB}
    /\ presult.r.live.palette[windowBg] = Colorfff000

\* The three entries x: #fff000; y: x; windowBg: y; in the given order.
Chain(x, y) ==
    Entry(x, HashWord(hexfff000)) \o Entry(y, Word(x)) \o Entry(windowBg, Word(y))
ForwardChain(x, y) ==
    Entry(y, Word(x)) \o Entry(x, HashWord(hexfff000)) \o Entry(windowBg, Word(y))
UnknownPairs == {<<nameA, nameB>>, <<nameB, nameA>>}

ZipRun ==
    /\ presult.done /\ probe.kind = "theme"
    /\ probe.content.zip /\ probe.content.colors = "ok" /\ probe.content.scheme = SchemeA
Files == probe.content.files
AllAbsent(files) == \A i \in 1..4 : files[i].st = "absent"
\* The first of the four names that the archive has.
Selected(files) ==
    CHOOSE i \in 1..4 : files[i].st # "absent" /\ \A j \in 1..(i - 1) : files[j].st = "absent"
\* Reading the entry ends in an error.
Unreadable(e) == e.st = "error" \/ e.size > kThemeBackgroundSizeLimit
\* The tiled flag and the background a run left in the cache record and in
\* the sink it wrote to.
TiledIs(r, tiled) ==
    /\ r.cache.tiled = tiled
    /\ IF probe.toOut THEN r.out.tiled = tiled ELSE r.live.themeTile = tiled
BackgroundIs(r, image) ==
    IF probe.toOut THEN r.out.background = image ELSE r.live.themeImage = image
NoBackgroundLoaded(r) == BackgroundIs(r, NullImage) /\ r.cache.background = EmptyData

\* C10: the first of background.jpg, background.png, tiled.jpg,
\* tiled.png that is found is the one read; a successful load has tiled
\* true exactly when that one is a tiled.* name; with none of the four the
\* load succeeds without background and tiled false; a read error on the
\* found entry fails the load.
C10_TiledIffTiledName ==
    ZipRun
        => /\ AllAbsent(Files)
                => presult.r.ok /\ NoBackgroundLoaded(presult.r) /\ TiledIs(presult.r, FALSE)
           /\ (~AllAbsent(Files) /\ Unreadable(Files[Selected(Files)])) => ~presult.r.ok
           /\ (~AllAbsent(Files) /\ presult.r.ok)
                => TiledIs(presult.r, Selected(Files) \in {3, 4})

\* --- single runs of the tiling loop
Ceil(n, d) == IF n % d = 0 THEN n \div d ELSE n \div d + 1
IsSmallForTiled == tiling.width < kMinimumTiledSize \/ tiling.height < kMinimumTiledSize
\* The canvas row and the canvas column (in pixels) an offset into the canvas
\* bytes is at, the canvas being tiledWidth pixels of four bytes wide.
CanvasRow(offset, tiledWidth) == offset \div (tiledWidth * 4)
CanvasColumn(offset, tiledWidth) == (offset % (tiledWidth * 4)) \div 4

\* C11: an image smaller than 512 in width or in height gets a canvas of
\* width * ceil(512 / width) by height * ceil(512 / height) pixels, both at
\* least 512; each copy of the loop writes one whole source row y to the
\* canvas row timesY * height + y at the columns of block timesX, every row
\* of every block is written exactly once, so every width-by-height block of
\* the canvas is the source; 100x100 gives 6 by 6 repeats and 600x600; an
\* image of at least 512 both ways is not copied, the tiled pixmap is the
\* main one.
C11_TiledCanvasRepeatsSource ==
    /\ tiling.phase = "copy"
        => /\ IsSmallForTiled
           /\ tiling.repeatTimesX = Ceil(kMinimumTiledSize, tiling.width)
           /\ tiling.repeatTimesY = Ceil(kMinimumTiledSize, tiling.height)
           /\ tiling.timesX < tiling.repeatTimesX
           /\ tiling.timesY < tiling.repeatTimesY
           /\ tiling.y < tiling.height
           /\ tiling.bytesInLine = tiling.width * 4
           /\ tiling.imageBytes = tiling.y * tiling.width * 4
           /\ CanvasRow(tiling.imageForTiledBytes, tiling.tiledWidth)
                = tiling.timesY * tiling.height + tiling.y
           /\ CanvasColumn(tiling.imageForTiledBytes, tiling.tiledWidth)
                = tiling.timesX * tiling.width
           /\ tiling.imageForTiledBytes % 4 = 0
           /\ tiling.copies
                = (tiling.timesY * tiling.height + tiling.y) * tiling.repeatTimesX
                  + tiling.timesX
    /\ tiling.phase = "done"
        => /\ tiling.small <=> IsSmallForTiled
           /\ tiling.small
                => /\ tiling.tiledWidth = tiling.width * Ceil(kMinimumTiledSize, tiling.width)
                   /\ tiling.tiledHeight
                        = tiling.height * Ceil(kMinimumTiledSize, tiling.height)
                   /\ tiling.tiledWidth >= kMinimumTiledSize
                   /\ tiling.tiledHeight >= kMinimumTiledSize
                   /\ tiling.copies
                        = tiling.tiledHeight * Ceil(kMinimumTiledSize, tiling.width)
                   /\ (tiling.width = 100 /\ tiling.height = 100)
                        => tiling.tiledWidth = 600 /\ tiling.tiledHeight = 600
           /\ ~tiling.small
                => /\ tiling.tiledWidth = tiling.width
                   /\ tiling.tiledHeight = tiling.height
                   /\ tiling.copies = 0

\* The 100x100 image tiled: 6 by 6 blocks of 100 rows each.
C11_Witness ==
    /\ tiling.phase = "done" /\ tiling.small
    /\ tiling.width = 100 /\ tiling.height = 100
    /\ tiling.tiledWidth = 600 /\ tiling.tiledHeight = 600
    /\ tiling.copies = 3600

\* --- previews
\* The themes on disk that load: their background and their windowBg.
PreviewBackground(n) == IF n = "a" THEN "imgA" ELSE NullImage
PreviewWindowBg(n) == IF n = "a" THEN MakeColor(51, 102, 153, 255) ELSE MakeColor(255, 240, 0, 255)
\* The last step was a preview that went through.
Previewed(op) == out'.op = op /\ out'.ret /\ ~crashed'
\* The background had been started and showed no preview.
StartedPlain == ~pixmapIsNull(bg.pixmap) /\ ~IsTesting(bg.id)
\* The step saved the (id, image, tile) of just before it for revert.
SavedForRevert ==
    /\ bg'.idForRevert = bg.id
    /\ bg'.imageForRevert = bg.pixmap.img
    /\ bg'.tileForRevert = bg.tile
KeptForRevert ==
    /\ bg'.idForRevert = bg.idForRevert
    /\ bg'.imageForRevert = bg.imageForRevert
    /\ bg'.tileForRevert = bg.tileForRevert

\* C12 as stated: from any background id a successful Apply leaves the
\* theme's palette applied, the (id, image, tile) of before saved for revert
\* and a testing id; ApplyDefault leaves the built-in palette, the snapshot
\* saved, id TestingDefault and the default artwork shown.
C12_PreviewEntersTestingState ==
    [][/\ Previewed("Apply")
            => /\ palette'[windowBg] = PreviewWindowBg(out'.arg)
               /\ IsTesting(bg'.id)
               /\ StartedPlain => SavedForRevert
       /\ Previewed("ApplyDefault")
            => /\ palette' = DefaultPalette
               /\ bg'.id = kTestingDefaultBackground
               /\ bg'.pixmap.img = DefaultArt
               /\ StartedPlain => SavedForRevert]_vars

\* C12: a successful Apply leaves the theme's palette applied.  When the
\* theme has a background, or the id was ThemeProvided, it saves the (id,
\* image, tile) of before (of the started background; nothing when a preview
\* was showing already) and leaves a testing id: TestingTheme showing the
\* theme's background, or TestingDefault showing the default artwork when
\* the theme has none.  Otherwise it saves nothing and keeps the id (Default
\* for a background never started).  ApplyDefault resets the palette; from
\* ThemeProvided it saves the snapshot and leaves TestingDefault with the
\* default artwork, the whole palette built-in and tile off; from any other
\* id it saves nothing and keeps the id (Default for a background never
\* started).
C12_PreviewEntersTestingFromTheme ==
    [][/\ Previewed("Apply")
            => /\ palette'[windowBg] = PreviewWindowBg(out'.arg)
               /\ (PreviewBackground(out'.arg) # NullImage \/ bg.id = kThemeBackground)
                    => /\ bg'.id = IF PreviewBackground(out'.arg) # NullImage
                                   THEN kTestingThemeBackground
                                   ELSE kTestingDefaultBackground
                       /\ bg'.pixmap.img = IF PreviewBackground(out'.arg) # NullImage
                                           THEN PreviewBackground(out'.arg)
                                           ELSE DefaultArt
                       /\ StartedPlain => SavedForRevert
                       /\ IsTesting(bg.id) => KeptForRevert
                       /\ pixmapIsNull(bg.pixmap)
                            => /\ ~IsTesting(bg'.idForRevert)
                               /\ bg'.idForRevert # kUninitializedBackground
                               /\ bg'.imageForRevert # NullImage
               /\ ~(PreviewBackground(out'.arg) # NullImage \/ bg.id = kThemeBackground)
                    => /\ bg'.id = IF bg.id = kUninitializedBackground
                                   THEN kDefaultBackground ELSE bg.id
                       /\ KeptForRevert
       /\ Previewed("ApplyDefault")
            => /\ palette'[windowBg] = DefaultPalette[windowBg]
               /\ bg.id = kThemeBackground
                    => /\ palette' = DefaultPalette
                       /\ bg'.id = kTestingDefaultBackground
                       /\ bg'.pixmap.img = DefaultArt
                       /\ ~bg'.tile
                       /\ SavedForRevert
               /\ bg.id # kThemeBackground
                    => /\ bg'.id = IF bg.id = kUninitializedBackground
                                   THEN kDefaultBackground ELSE bg.id
                       /\ KeptForRevert]_vars

\* Apply of the theme without background over a picked image: the id stays
\* Custom and nothing was saved for revert.
C12_Witness ==
    /\ Did("Apply") /\ out.arg = "b" /\ out.ret
    /\ bg.id = kCustomBackground
    /\ bg.idForRevert = kUninitializedBackground
    /\ palette[windowBg] = PreviewWindowBg("b")

\* --- Load and the stored theme
\* The record is one the fast path takes: both checksums right, background
\* bytes (if any) that decode, colors that load.
RecordLoads ==
    /\ probe.cache.paletteChecksum = PaletteChecksum
    /\ probe.cache.contentChecksum = hashCrc32(probe.content)
    /\ probe.cache.background.fmt \in {"empty", "jpg", "png", "bmp"}
    /\ probe.cache.colors.ok
WriteThemes(ev) == {i \in 1..Len(ev) : ev[i].e = "writeTheme"}
InitialStore ==
    [background |-> NoBackground, hasTheme |-> FALSE, theme |-> NoTheme, tile |-> FALSE]

\* C13: Load of content under 4 bytes returns false and changes nothing, not
\* even the instance.  With a record the fast path takes, Load returns true,
\* the live palette is the record's colors (nothing is parsed) and nothing
\* is stored.  Otherwise Load returns what the full load returns; when that
\* is success it calls writeTheme once, storing the two paths, the content
\* and a record carrying the registry's checksum and the CRC32 of the
\* content; when it is failure nothing is stored.
C13_LoadStoresOnSuccessfulMiss ==
    (presult.done /\ probe.kind = "cache")
        => /\ ContentSize(probe.content) < 4
                => /\ ~presult.r.ret
                   /\ presult.r.w = World
           /\ (ContentSize(probe.content) >= 4 /\ RecordLoads)
                => /\ presult.r.ret
                   /\ presult.r.w.inst
                   /\ presult.r.w.palette = probe.cache.colors.pal
                   /\ WriteThemes(presult.r.w.ev) = {}
                   /\ presult.r.w.store = InitialStore
           /\ (ContentSize(probe.content) >= 4 /\ ~RecordLoads)
                => /\ presult.r.ret = loadTheme(probe.content, FreshLive, NoOut).ok
                   /\ presult.r.w.inst
                   /\ presult.r.ret
                        => /\ Cardinality(WriteThemes(presult.r.w.ev)) = 1
                           /\ presult.r.w.store.hasTheme
                           /\ presult.r.w.store.theme.pathRelative = [abs |-> FALSE, name |-> "a"]
                           /\ presult.r.w.store.theme.pathAbsolute = [abs |-> TRUE, name |-> "a"]
                           /\ presult.r.w.store.theme.content = probe.content
                           /\ presult.r.w.store.theme.cache.paletteChecksum = PaletteChecksum
                           /\ presult.r.w.store.theme.cache.contentChecksum
                                = hashCrc32(probe.content)
                   /\ ~presult.r.ret
                        => /\ WriteThemes(presult.r.w.ev) = {}
                           /\ presult.r.w.store = InitialStore

\* A record of another theme handed in with theme a: a miss, a full load
\* and one writeTheme.  (The accepted record with other colors is the case
\* of no reparse.)
C13_Witness ==
    /\ presult.done /\ probe.kind = "cache"
    /\ probe.content = ThemeA
    /\ probe.cache = TrueCache(ThemeB)
    /\ presult.r.ret
    /\ Cardinality(WriteThemes(presult.r.w.ev)) = 1
    /\ presult.r.w.store.theme.cache = TrueCache(ThemeA)

\* --- the singleton
\* C14: while there is no instance the background and the pending record
\* are those of a freshly constructed Data (Unload leaves that), and no
\* entry point called then (Background()->..., Load, Apply, ApplyDefault,
\* KeepApplied, Revert) dereferences the missing instance.
C14_EntryPointsSafeWithoutInstance ==
    [][/\ ~inst => ~crashed'
       /\ ~inst' => (bg' = NewBackground /\ applying' = NoApplying)]_vars

\* --- single calls of setImage
ImageRun == presult.done /\ probe.kind = "image"
Before == probe.w
After == presult.r.w
Notifications(ev, type) == {i \in 1..Len(ev) : ev[i].e = "notify" /\ ev[i].a = type}
\* What every call of setImage ends with: no failed assertion, both pixmaps
\* there, one New notification carrying the tile flag.
PixmapsAndNotification ==
    /\ ~After.crash
    /\ ~pixmapIsNull(After.bg.pixmap)
    /\ ~pixmapIsNull(After.bg.pixmapForTiled)
    /\ Cardinality(Notifications(After.ev, "New")) = 1
    /\ After.ev[Len(After.ev)] = Event("notify", "New", "", After.bg.tile, FALSE)
    /\ Cardinality({i \in 1..Len(After.ev) : After.ev[i].e = "notify"}) = 1

\* C15 as stated: setImage ends with both pixmaps and one New notification;
\* ThemeProvided without a theme image ends as Default, a testing id with a
\* null image as TestingDefault, any other id with a null image as Default.
C15_SetImagePostcondition ==
    ImageRun
        => /\ PixmapsAndNotification
           /\ (probe.id = kThemeBackground /\ Before.bg.themeImage = NullImage)
                => After.bg.id = kDefaultBackground
           /\ (IsTesting(probe.id) /\ probe.image = NullImage)
                => After.bg.id = kTestingDefaultBackground
           /\ (probe.id # kThemeBackground /\ ~IsTesting(probe.id) /\ probe.image = NullImage)
                => After.bg.id = kDefaultBackground

\* C15: setImage ends with both pixmaps and one New notification;
\* ThemeProvided without a theme image ends as Default and with one as
\* ThemeProvided showing it; a testing id with a null image ends as
\* TestingDefault; Initial ends as Initial showing the initial artwork,
\* whatever the image; any other id with a null image ends as Default
\* showing the default artwork, and with an image keeps the id and shows the
\* image.
C15_SetImagePostconditionButInitial ==
    ImageRun
        => /\ PixmapsAndNotification
           /\ (probe.id = kThemeBackground /\ Before.bg.themeImage = NullImage)
                => After.bg.id = kDefaultBackground /\ After.bg.pixmap.img = DefaultArt
           /\ (probe.id = kThemeBackground /\ Before.bg.themeImage # NullImage)
                => /\ After.bg.id = kThemeBackground
                   /\ After.bg.pixmap.img = Before.bg.themeImage
           /\ (IsTesting(probe.id) /\ probe.image = NullImage)
                => After.bg.id = kTestingDefaultBackground /\ After.bg.pixmap.img = DefaultArt
           /\ probe.id = kInitialBackground
                => After.bg.id = kInitialBackground /\ After.bg.pixmap.img = InitialArt
           /\ (probe.id \notin {kThemeBackground, kInitialBackground} /\ ~IsTesting(probe.id))
                => IF probe.image = NullImage
                   THEN After.bg.id = kDefaultBackground /\ After.bg.pixmap.img = DefaultArt
                   ELSE IF probe.id = kDefaultBackground
                   THEN After.bg.id = kDefaultBackground /\ After.bg.pixmap.img = DefaultArt
                   ELSE After.bg.id = probe.id /\ After.bg.pixmap.img = probe.image

\* setImage(kInitialBackground, QImage()) on a started theme background.
C15_Witness ==
    /\ ImageRun
    /\ probe.pre = "started" /\ probe.id = kInitialBackground /\ probe.image = NullImage
    /\ After.bg.id = kInitialBackground
    /\ After.bg.pixmapForTiled = [img |-> InitialArt, rx |-> 2, ry |-> 2]

\* --- setTile
SetTileTo(tile) == out'.op = "setTile" /\ out'.arg = (IF tile THEN "true" ELSE "false")
Started == ~pixmapIsNull(bg.pixmap)
\* setTile changed the flag to tile in a state where the id was a testing
\* one or not: one Changed notification, and the settings written unless
\* testing.
TileChanged(tile, testing) ==
    /\ bg' = [bg EXCEPT !.tile = tile]
    /\ Cardinality(Notifications(out'.ev, "Changed")) = 1
    /\ out'.ev[Len(out'.ev)] = Event("notify", "Changed", "", tile, FALSE)
    /\ Wrote(out'.ev, "writeUserSettings") <=> ~testing
    /\ Wrote(out'.ev, "writeUserSettings") => Len(out'.ev) = 2
    /\ ~Wrote(out'.ev, "writeUserSettings") => (Len(out'.ev) = 1 /\ store' = store)
    /\ ~Wrote(out'.ev, "writeBackground")
    /\ store'.background = store.background /\ store'.theme = store.theme
    /\ palette' = palette
Untouched ==
    /\ bg' = bg /\ store' = store /\ palette' = palette /\ applying' = applying
    /\ out'.ev = <<>>

\* C16 as stated: setTile(tile) with tile the current flag changes nothing,
\* stores nothing and notifies nobody; with another value it sets the flag,
\* sends one Changed notification and writes the user settings exactly when
\* the id is not a testing one.
C16_SetTileNoOpWhenUnchanged ==
    [][\A tile \in BOOLEAN :
          SetTileTo(tile)
            => /\ tile = bg.tile => Untouched
               /\ tile # bg.tile => TileChanged(tile, IsTesting(bg.id))]_vars

\* The id and the tile flag that start() leaves an unstarted background with.
StartedId ==
    IF store.background.has /\ store.background.id # kThemeBackground
    THEN (IF store.background.id = kInitialBackground \/ store.background.image # NullImage
          THEN store.background.id ELSE kDefaultBackground)
    ELSE IF bg.themeImage # NullImage THEN kThemeBackground ELSE kDefaultBackground
StartedTile == IF StartedId = kThemeBackground THEN bg.themeTile ELSE bg.tile

\* C16: on a background that was started, setTile(tile) with tile the
\* current flag changes nothing, stores nothing and notifies nobody, and
\* with another value it sets the flag, sends one Changed notification and
\* writes the user settings exactly when the id is not a testing one.  On a
\* background not yet started setTile starts it first (one New
\* notification, the stored or the theme's or the default background) and
\* then compares with the tile flag the start left: equal, nothing more
\* happens; different, the flag is set, the settings are written and one
\* Changed notification follows.
C16_SetTileNoOpWhenUnchangedOnceStarted ==
    [][\A tile \in BOOLEAN :
          SetTileTo(tile)
            => /\ (Started /\ tile = bg.tile) => Untouched
               /\ (Started /\ tile # bg.tile) => TileChanged(tile, IsTesting(bg.id))
               /\ ~Started
                    => /\ ~crashed'
                       /\ ~pixmapIsNull(bg'.pixmap)
                       /\ bg'.id = StartedId
                       /\ bg'.tile = tile
                       /\ Cardinality(Notifications(out'.ev, "New")) = 1
                       /\ Cardinality(Notifications(out'.ev, "Changed"))
                            = (IF tile # StartedTile THEN 1 ELSE 0)
                       /\ Wrote(out'.ev, "writeUserSettings") <=> tile # StartedTile]_vars

\* setTile(true) during a preview: the flag was set and notified, the
\* settings were not written and the snapshot still has the old flag.
C16_Witness ==
    /\ Did("setTile") /\ out.arg = "true"
    /\ IsTesting(bg.id)
    /\ bg.tile /\ ~bg.tileForRevert
    /\ Len(out.ev) = 1
    /\ ~store.tile

\* --- revert outside a preview
\* C17: Revert() with an instance whose background id is not a testing one
\* leaves the id, the tile flag and the stored background as they were and
\* ends with a forced RevertingTheme notification.
C17_RevertOutsidePreviewRebroadcasts ==
    [][(out'.op = "Revert" /\ inst /\ ~IsTesting(bg.id))
         => /\ ~crashed'
            /\ bg'.id = bg.id
            /\ bg'.tile = bg.tile
            /\ store'.background = store.background
            /\ out'.ev[Len(out'.ev)] = Event("notify", "RevertingTheme", "", bg'.tile, TRUE)]_vars

FromSomeTheme ==
    IF ~Before.applying.paletteForRevert.empty
    THEN Before.applying.path.name # ""
    ELSE Before.store.hasTheme
Derives ==
    /\ After.bg.id \notin {kThemeBackground, kTestingThemeBackground}
    /\ FromSomeTheme \/ After.bg.id \notin {kDefaultBackground, kTestingDefaultBackground}

\* C19: a call of setImage recomputes the service colors from the image it
\* shows exactly when the id it ends with is neither ThemeProvided nor
\* TestingTheme and the colors come from an applied theme or the id is
\* neither Default nor TestingDefault; then the service colors take hue and
\* saturation from the image and no other color changes; otherwise the
\* palette is as before.
C19_AmbientColorsDerivedExactlyWhen ==
    ImageRun
        => /\ Wrote(After.ev, "initColors") <=> Derives
           /\ Derives
                => /\ \A n \in ServiceNames :
                          After.palette[n] = [Before.palette[n] EXCEPT !.tint = After.bg.pixmap.img]
                   /\ \A n \in PaletteNames \ ServiceNames : After.palette[n] = Before.palette[n]
           /\ ~Derives => After.palette = Before.palette

\* The default background set while the preview of a theme file is pending
\* and no theme is stored: the service colors are recomputed.
C19_Witness ==
    /\ ImageRun
    /\ probe.pre = "previewB" /\ probe.id = kDefaultBackground
    /\ ~Before.store.hasTheme
    /\ After.bg.id = kDefaultBackground
    /\ After.palette[msgServiceBg].tint = DefaultArt

\* --- the theme image
\* C20: in every reachable state a background whose id is ThemeProvided has
\* a theme image.
C20_ThemeProvidedHasThemeImage ==
    bg.id = kThemeBackground => bg.themeImage # NullImage

\* A previewed theme kept in a process that never loaded one: the theme
\* image is the image the preview showed.
C20_Witness ==
    /\ Did("KeepApplied") /\ steps = 2
    /\ bg.id = kThemeBackground
    /\ bg.themeImage = "imgA"
    /\ bg.pixmap.img = "imgA"

\* --- the pending record and the testing ids
\* C21: whenever the background id is a testing one the pending record holds
\* a palette snapshot; right after every KeepApplied() and every Revert()
\* the id is not a testing one and the pending record is a default one; and
\* a Revert() that follows a KeepApplied() or a Revert() restores no
\* palette: every color but the recomputed service colors stays.
C21_TestingIdHasPendingRecord ==
    [][/\ IsTesting(bg'.id) => ~applying'.paletteForRevert.empty
       /\ out'.op \in {"KeepApplied", "Revert"}
            => (~IsTesting(bg'.id) /\ applying' = NoApplying)
       /\ (out.op \in {"KeepApplied", "Revert"} /\ out'.op = "Revert")
            => \A n \in PaletteNames \ ServiceNames : palette'[n] = palette[n]]_vars

\* Revert() of a preview that had replaced a started background: the saved
\* id is back, the palette is the one of before and no record is pending.
C21_Witness ==
    /\ Did("Revert") /\ hist.reverted = 1
    /\ hist.pre.id \notin {kUninitializedBackground, kThemeBackground}
    /\ bg.id = hist.pre.id
    /\ bg.idForRevert = hist.pre.id
    /\ palette = hist.pre.palette
    /\ applying = NoApplying

\* --- leaving the Uninitialized id
\* C22: an Apply, an ApplyDefault or a Revert that takes the background off
\* the Uninitialized id does it through start(): the id (the id saved for
\* revert, when the step ends in a preview) is the one start() restores from
\* the stored background, and a stored background that start() restores is
\* still the stored one afterwards.
C22_LeavesUninitializedThroughStart ==
    [][(/\ bg.id = kUninitializedBackground
        /\ out'.op \in {"Apply", "ApplyDefault", "Revert"}
        /\ ~crashed'
        /\ bg'.id # kUninitializedBackground)
         => /\ IF IsTesting(bg'.id) THEN bg'.idForRevert = StartedId
                                    ELSE bg'.id = StartedId
            /\ (store.background.has /\ store.background.id = StartedId)
                 => (store'.background.has /\ store'.background.id = StartedId)]_vars

====
